---------------------------- MODULE Spec2Model ----------------------------
(***************************************************************************)
(* A model of ldparser: the linker-script parser (script.rs, sections.rs   *)
(* and the grammar modules they use) and the generator (generator.rs).     *)
(*                                                                         *)
(* Text is a TLA+ string; a parser is an operator P(s, i) that reads the   *)
(* text s from position i (1-based) and returns nom's IResult.  A parser   *)
(* handed to a combinator is written as a term (Rule, Tag, Wsc, Many1,     *)
(* ...) that apply runs.  The results:                                     *)
(*   [st |-> "Ok", pos |-> next position, val |-> value]                   *)
(*   [st |-> "Error"]     nom's Err::Error, a recoverable mismatch         *)
(*   [st |-> "Failure"]   nom's Err::Failure, what cut() produces          *)
(*   [st |-> "Panic"]     a panic!() arm was executed                      *)
(***************************************************************************)
EXTENDS Integers, Sequences, FiniteSets

VARIABLES
  doc, pc, parsed, generated, reparsed, regenerated,   \* a document through parse / generate
  etext, epc, etree, egen, etree2,                     \* an expression through expression / generate
  otext, opc, ores, oinner, ogen, oback,               \* a text through output_section_command
  rgn, rpc, rtext, rback,                              \* a Region through generate and region
  sec, stext, spc, sres, swhole,                       \* an output section through generate / output_sc
  ptext, ppc, psp, pin,                                \* a text through section_pattern and input_osc
  memory_builder, section_builder, commands,           \* a LinkerScriptBuilder,
  statements, additional_content,
  bpc, script, bparsed,                                \*   its generated script and the parse of it
  last_call, calls, cmdBase, cmdAdded, stmtBase, stmtAdded, \*   the calls made on it so far
  mregions, madj, mpc                                  \* a MemoryBuilder's regions, which of them adjacent

docVars == <<doc, pc, parsed, generated, reparsed, regenerated>>
exprVars == <<etext, epc, etree, egen, etree2>>
oscVars == <<otext, opc, ores, oinner, ogen, oback>>
regionVars == <<rgn, rpc, rtext, rback>>
secVars == <<sec, stext, spc, sres, swhole>>
patVars == <<ptext, ppc, psp, pin>>
builderFields == <<memory_builder, section_builder, commands, statements, additional_content>>
historyVars == <<last_call, calls, cmdBase, cmdAdded, stmtBase, stmtAdded>>
bldVars == <<builderFields, bpc, script, bparsed, historyVars>>
memVars == <<mregions, madj, mpc>>
vars == <<docVars, exprVars, oscVars, regionVars, secVars, patVars, bldVars, memVars>>

(***************************************************************************)
(* nom's results and combinators                                           *)
(***************************************************************************)
Ok(p, v) == [st |-> "Ok", pos |-> p, val |-> v]
Error == [st |-> "Error"]
Failure == [st |-> "Failure"]
Panic == [st |-> "Panic"]

Some(v) == <<v>>
None == <<>>

\* The character of s at position i, "" at the end of the input.
At(s, i) == IF i >= 1 /\ i <= Len(s) THEN SubSeq(s, i, i) ELSE ""

\* Parser terms: what the source writes as an argument of a combinator.
Rule(n) == [p |-> n]                                  \* a named parser function
Tag(x) == [p |-> "tag", x |-> x]                      \* tag("...")
Operator(ops) == [p |-> "operator", ops |-> ops]      \* one operator of a table
Wsc(x) == [p |-> "wsc", x |-> x]                      \* wsc!(x)
Opt(x) == [p |-> "opt", x |-> x]                      \* opt(x)
Cut(x) == [p |-> "cut", x |-> x]                      \* cut(x)
Many0(x) == [p |-> "many0", x |-> x]                  \* many0(x)
Many1(x) == [p |-> "many1", x |-> x]                  \* many1(x)
Preceded(x, y) == [p |-> "preceded", x |-> x, y |-> y]
Delimited(x, y, z) == [p |-> "delimited", x |-> x, y |-> y, z |-> z]
Alt2(x, y) == [p |-> "alt2", x |-> x, y |-> y]        \* alt((x, y))
AltTags(ts) == [p |-> "alt_tags", ts |-> ts]          \* alt((tag(..), tag(..), ...))
Fold(k, level) == [p |-> "fold", k |-> k, level |-> level]

RECURSIVE apply(_, _, _)

tag(x, s, i) ==
  IF i + Len(x) - 1 <= Len(s) /\ SubSeq(s, i, i + Len(x) - 1) = x
  THEN Ok(i + Len(x), x)
  ELSE Error

\* cut: a recoverable Error becomes an unrecoverable Failure.
cut(x, s, i) ==
  LET r == apply(x, s, i) IN IF r.st = "Error" THEN Failure ELSE r

\* opt: an Error becomes None and consumes nothing; a Failure passes through.
opt(x, s, i) ==
  LET r == apply(x, s, i)
  IN CASE r.st = "Ok" -> Ok(r.pos, Some(r.val))
       [] r.st = "Error" -> Ok(i, None)
       [] OTHER -> r

\* The loop of many0 and many1: repeats x until it returns Error; a Failure
\* passes through; an iteration that consumes nothing is an Error (nom's
\* infinite-loop guard).
RECURSIVE many_loop(_, _, _, _)
many_loop(x, s, j, acc) ==
  LET r == apply(x, s, j)
  IN CASE r.st = "Error" -> Ok(j, acc)
       [] r.st # "Ok" -> r
       [] r.pos = j -> Error
       [] OTHER -> many_loop(x, s, r.pos, Append(acc, r.val))

many0(x, s, i) == many_loop(x, s, i, <<>>)

\* many1: as many0, but the first application must succeed.
many1(x, s, i) ==
  LET first == apply(x, s, i)
  IN CASE first.st # "Ok" -> first
       [] first.pos = i -> Error
       [] OTHER -> many_loop(x, s, first.pos, <<first.val>>)

\* alt: the first alternative that does not return Error decides.
alt2(x1, x2, s, i) ==
  LET r1 == apply(x1, s, i)
  IN CASE r1.st # "Error" -> r1
       [] OTHER -> apply(x2, s, i)

alt3(x1, x2, x3, s, i) ==
  LET r1 == apply(x1, s, i)
      r2 == apply(x2, s, i)
  IN CASE r1.st # "Error" -> r1
       [] r2.st # "Error" -> r2
       [] OTHER -> apply(x3, s, i)

alt4(x1, x2, x3, x4, s, i) ==
  LET r1 == apply(x1, s, i)
      r2 == apply(x2, s, i)
      r3 == apply(x3, s, i)
  IN CASE r1.st # "Error" -> r1
       [] r2.st # "Error" -> r2
       [] r3.st # "Error" -> r3
       [] OTHER -> apply(x4, s, i)

alt5(x1, x2, x3, x4, x5, s, i) ==
  LET r1 == apply(x1, s, i)
      r2 == apply(x2, s, i)
      r3 == apply(x3, s, i)
      r4 == apply(x4, s, i)
  IN CASE r1.st # "Error" -> r1
       [] r2.st # "Error" -> r2
       [] r3.st # "Error" -> r3
       [] r4.st # "Error" -> r4
       [] OTHER -> apply(x5, s, i)

\* The least element of a non-empty set of integers.
Least(S) == CHOOSE k \in S : \A m \in S : k <= m

\* The first of the tags ts (in order) that matches at i.
alt_tags(ts, s, i) ==
  LET hits == {k \in 1..Len(ts) : tag(ts[k], s, i).st = "Ok"}
  IN IF hits = {} THEN Error ELSE tag(ts[Least(hits)], s, i)

\* preceded(x, y): x then y, the value of y.
preceded(x, y, s, i) ==
  LET a == apply(x, s, i)
  IN CASE a.st # "Ok" -> a
       [] OTHER -> apply(y, s, a.pos)

\* delimited(x, y, z): x then y then z, the value of y.
delimited(x, y, z, s, i) ==
  LET a == apply(x, s, i)
      b == apply(y, s, a.pos)
      c == apply(z, s, b.pos)
  IN CASE a.st # "Ok" -> a
       [] b.st # "Ok" -> b
       [] c.st # "Ok" -> c
       [] OTHER -> Ok(c.pos, b.val)

\* The end of the maximal run of characters of the class that starts at i.
run_end(class, s, i) ==
  CHOOSE j \in i..(Len(s) + 1) :
    /\ \A k \in i..(j - 1) : At(s, k) \in class
    /\ At(s, j) \notin class

\* take_while1: the maximal non-empty run of characters of the class.
take_while1(class, s, i) ==
  LET e == run_end(class, s, i)
  IN IF e = i THEN Error ELSE Ok(e, SubSeq(s, i, e - 1))

(***************************************************************************)
(* Whitespace and comments (whitespace.rs, macros.rs)                      *)
(***************************************************************************)
Spaces == {" ", "\t", "\n", "\r"}

\* The first position >= i where x starts, 0 when there is none.
find(x, s, i) ==
  LET hits == {j \in i..(Len(s) - Len(x) + 1) : SubSeq(s, j, j + Len(x) - 1) = x}
  IN IF hits = {} THEN 0 ELSE Least(hits)

\* A block comment or a line comment.
comment(s, i) ==
  LET block_end == find("*/", s, i + 2)
      line_end == find("\n", s, i + 2)
  IN CASE tag("/*", s, i).st = "Ok" ->
            IF block_end = 0 THEN Error ELSE Ok(block_end + 2, "")
       [] tag("//", s, i).st = "Ok" ->
            IF line_end = 0 THEN Ok(Len(s) + 1, "") ELSE Ok(line_end + 1, "")
       [] OTHER -> Error

space(s, i) == take_while1(Spaces, s, i)

space_or_comment(s, i) ==
  LET r == space(s, i) IN IF r.st # "Error" THEN r ELSE comment(s, i)

\* Zero or more runs of whitespace and comments; never fails.
opt_space(s, i) ==
  LET e == run_end(Spaces, s, i)
  IN IF At(s, e) # "/" THEN Ok(e, "")    \* no comment can start here
     ELSE Ok(many0(Rule("space_or_comment"), s, i).pos, "")

\* wsc!(x): x with optional whitespace and comments on both sides.
wsc(x, s, i) ==
  LET a == opt_space(s, i)
      b == apply(x, s, a.pos)
      c == opt_space(s, b.pos)
  IN CASE b.st # "Ok" -> b
       [] OTHER -> Ok(c.pos, b.val)

wsc_tag(x, s, i) == wsc(Tag(x), s, i)

(***************************************************************************)
(* Identifiers, patterns and numbers (idents.rs, numbers.rs)               *)
(***************************************************************************)
Letters == {"a", "b", "c", "d", "e", "f", "g", "h", "i", "j", "k", "l", "m",
            "n", "o", "p", "q", "r", "s", "t", "u", "v", "w", "x", "y", "z",
            "A", "B", "C", "D", "E", "F", "G", "H", "I", "J", "K", "L", "M",
            "N", "O", "P", "Q", "R", "S", "T", "U", "V", "W", "X", "Y", "Z"}
DecDigits == "0123456789"
HexDigits == "0123456789ABCDEF"
Digits == {"0", "1", "2", "3", "4", "5", "6", "7", "8", "9"}
HexLetters == {"a", "b", "c", "d", "e", "f", "A", "B", "C", "D", "E", "F"}
SymbolChars == Letters \cup Digits \cup {"_", ".", "$"}
PatternChars == SymbolChars \cup {"*", "?", "[", "]", "-"}

symbol(s, i) == take_while1(SymbolChars, s, i)
pattern(s, i) == take_while1(PatternChars, s, i)

\* The value of one digit character.
DigitValue(c) ==
  CASE c = "0" -> 0 [] c = "1" -> 1 [] c = "2" -> 2 [] c = "3" -> 3
    [] c = "4" -> 4 [] c = "5" -> 5 [] c = "6" -> 6 [] c = "7" -> 7
    [] c = "8" -> 8 [] c = "9" -> 9
    [] c \in {"a", "A"} -> 10 [] c \in {"b", "B"} -> 11 [] c \in {"c", "C"} -> 12
    [] c \in {"d", "D"} -> 13 [] c \in {"e", "E"} -> 14 [] c \in {"f", "F"} -> 15

\* base to the power k.
RECURSIVE Power(_, _)
Power(base, k) ==
  IF k = 0 THEN 1
  ELSE LET h == Power(base, k \div 2)
       IN IF k % 2 = 0 THEN h * h ELSE h * h * base

\* The value of the digit text ds in the base (halving the text keeps the
\* evaluation shallow).
RECURSIVE DigitsValue(_, _)
DigitsValue(ds, base) ==
  IF Len(ds) = 1 THEN DigitValue(ds)
  ELSE LET h == Len(ds) \div 2
       IN DigitsValue(SubSeq(ds, 1, h), base) * Power(base, Len(ds) - h)
            + DigitsValue(SubSeq(ds, h + 1, Len(ds)), base)

\* A decimal or 0x-hexadecimal integer with an optional K or M suffix; a
\* letter run after the digits that is not exactly K or M is rejected.
number(s, i) ==
  LET hex == tag("0x", s, i).st = "Ok"
      digits == IF hex THEN take_while1(Digits \cup HexLetters, s, i + 2)
                ELSE take_while1(Digits, s, i)
      v == DigitsValue(digits.val, IF hex THEN 16 ELSE 10)
      suffix == take_while1(Letters, s, digits.pos)
  IN CASE digits.st # "Ok" -> Error
       [] suffix.st # "Ok" -> Ok(digits.pos, v)
       [] suffix.val = "K" -> Ok(suffix.pos, v * 1024)
       [] suffix.val = "M" -> Ok(suffix.pos, v * 1024 * 1024)
       [] OTHER -> Error

(***************************************************************************)
(* Expressions (expressions.rs): precedence climbing, lowest first:        *)
(* ternary, ||, &&, |, &, equality/relational, shift, additive,            *)
(* multiplicative, unary, primary.                                         *)
(***************************************************************************)
LogicOrOps == << <<"||", "LogicOr">> >>
LogicAndOps == << <<"&&", "LogicAnd">> >>
BitwiseOrOps == << <<"|", "BitwiseOr">> >>
BitwiseAndOps == << <<"&", "BitwiseAnd">> >>
RelationalOps == << <<"==", "Equals">>, <<"!=", "NotEquals">>,
                    <<"<=", "LesserOrEquals">>, <<">=", "GreaterOrEquals">>,
                    <<"<", "Lesser">>, <<">", "Greater">> >>
ShiftOps == << <<"<<", "ShiftLeft">>, <<">>", "ShiftRight">> >>
AdditiveOps == << <<"+", "Plus">>, <<"-", "Minus">> >>
MultiplicativeOps == << <<"*", "Multiply">>, <<"/", "Divide">>, <<"%", "Remainder">> >>
UnaryOps == << <<"!", "LogicNot">>, <<"-", "Minus">>, <<"~", "BitwiseNot">> >>

\* The binary operator tables, lowest precedence first.
BinaryLevels == <<LogicOrOps, LogicAndOps, BitwiseOrOps, BitwiseAndOps,
                  RelationalOps, ShiftOps, AdditiveOps, MultiplicativeOps>>

\* The first operator of the table ops (pairs <<text, name>>) that matches
\* at i; the value is the operator's name.
operator_of(ops, s, i) ==
  LET hits == {k \in 1..Len(ops) : tag(ops[k][1], s, i).st = "Ok"}
  IN IF hits = {} THEN Error
     ELSE Ok(i + Len(ops[Least(hits)][1]), ops[Least(hits)][2])

RECURSIVE expression(_, _)

\* Zero or more comma-separated expressions.
expression_list(s, i) ==
  LET first == apply(Wsc(Rule("expression")), s, i)
      more == apply(Many0(Preceded(Wsc(Tag(",")), Wsc(Rule("expression")))), s, first.pos)
  IN CASE first.st # "Ok" -> Ok(i, <<>>)
       [] more.st # "Ok" -> more
       [] OTHER -> Ok(more.pos, <<first.val>> \o more.val)

number_expr(s, i) ==
  LET r == number(s, i)
  IN IF r.st # "Ok" THEN r ELSE Ok(r.pos, [t |-> "Number", num |-> r.val])

ident_expr(s, i) ==
  LET r == symbol(s, i)
  IN IF r.st # "Ok" THEN r ELSE Ok(r.pos, [t |-> "Ident", name |-> r.val])

call_expr(s, i) ==
  LET f == symbol(s, i)
      open == apply(Wsc(Tag("(")), s, f.pos)
      args == apply(Rule("expression_list"), s, open.pos)
      close == apply(Tag(")"), s, args.pos)
  IN CASE f.st # "Ok" -> f
       [] open.st # "Ok" -> open
       [] args.st # "Ok" -> args
       [] close.st # "Ok" -> close
       [] OTHER ->
         Ok(close.pos, [t |-> "Call", function |-> f.val, arguments |-> args.val])

paren_expr(s, i) == apply(Delimited(Tag("("), Wsc(Rule("expression")), Tag(")")), s, i)

primary(s, i) ==
  alt4(Rule("number_expr"), Rule("call_expr"), Rule("ident_expr"), Rule("paren_expr"), s, i)

RECURSIVE unary(_, _)
unary(s, i) ==
  LET o == apply(Operator(UnaryOps), s, i)
      sp == apply(Rule("opt_space"), s, o.pos)
      r == apply(Rule("unary"), s, sp.pos)
  IN CASE o.st # "Ok" -> primary(s, i)
       [] r.st # "Ok" -> r
       [] OTHER -> Ok(r.pos, [t |-> "UnaryOp", operator |-> o.val, right |-> r.val])

RECURSIVE binary(_, _, _)

\* The operators of the level k after the operand left (a result): the tree
\* leans left; an operator without a right operand is left unconsumed.  A
\* level above the one asked for (k < level) folds nothing.
RECURSIVE fold(_, _, _, _)
fold(k, level, s, left) ==
  LET o == apply(Wsc(Operator(BinaryLevels[k])), s, left.pos)
      r == binary(k + 1, s, o.pos)
  IN CASE left.st # "Ok" -> left
       [] k < level -> left
       [] o.st # "Ok" -> left
       [] r.st # "Ok" -> left
       [] OTHER ->
         fold(k, level, s,
              Ok(r.pos, [t |-> "BinaryOp", left |-> left.val, operator |-> o.val,
                         right |-> r.val]))

\* An operand of the level: a unary operand, then the operators of each
\* level from the highest precedence down to the level.  (Each level parses
\* the next level's operand first, so the innermost operand is read once and
\* the levels fold over it on the way out.)
binary(level, s, i) ==
  LET u == unary(s, i)
      l8 == apply(Fold(8, level), s, u)
      l7 == apply(Fold(7, level), s, l8)
      l6 == apply(Fold(6, level), s, l7)
      l5 == apply(Fold(5, level), s, l6)
      l4 == apply(Fold(4, level), s, l5)
      l3 == apply(Fold(3, level), s, l4)
      l2 == apply(Fold(2, level), s, l3)
      l1 == apply(Fold(1, level), s, l2)
  IN CASE u.st # "Ok" -> u
       [] l8.st # "Ok" -> l8
       [] l7.st # "Ok" -> l7
       [] l6.st # "Ok" -> l6
       [] l5.st # "Ok" -> l5
       [] l4.st # "Ok" -> l4
       [] l3.st # "Ok" -> l3
       [] l2.st # "Ok" -> l2
       [] OTHER -> l1

multiplicative(s, i) == binary(8, s, i)
additive(s, i) == binary(7, s, i)
shift(s, i) == binary(6, s, i)
relational(s, i) == binary(5, s, i)
bitwise_and(s, i) == binary(4, s, i)
bitwise_or(s, i) == binary(3, s, i)
logic_and(s, i) == binary(2, s, i)
logic_or(s, i) == binary(1, s, i)

\* cond ? a : b, right-associative; without "?" the condition alone.
ternary(s, i) ==
  LET c == logic_or(s, i)
      q == apply(Wsc(Tag("?")), s, c.pos)
      a == apply(Rule("expression"), s, q.pos)
      colon == apply(Wsc(Tag(":")), s, a.pos)
      b == apply(Rule("expression"), s, colon.pos)
  IN CASE c.st # "Ok" -> c
       [] q.st # "Ok" -> c
       [] a.st # "Ok" -> c
       [] colon.st # "Ok" -> c
       [] b.st # "Ok" -> c
       [] OTHER ->
         Ok(b.pos, [t |-> "TernaryOp", condition |-> c.val, left |-> a.val, right |-> b.val])

expression(s, i) == ternary(s, i)

(***************************************************************************)
(* Statements (statements.rs), in priority order: ASSERT, PROVIDE_HIDDEN,  *)
(* PROVIDE, HIDDEN, assignment.  After a keyword and its "(" the rest of   *)
(* the construct is mandatory.                                             *)
(***************************************************************************)
AssignOps == << <<"=", "Equals">>, <<"+=", "Plus">>, <<"-=", "Minus">>,
                <<"*=", "Multiply">>, <<"/=", "Divide">>, <<"<<=", "ShiftLeft">>,
                <<">>=", "ShiftRight">>, <<"&=", "And">>, <<"|=", "Or">> >>

\* A double-quoted text without escapes; the value is the text between.
string(s, i) ==
  LET e == find("\"", s, i + 1)
  IN CASE tag("\"", s, i).st # "Ok" -> Error
       [] e = 0 -> Error
       [] OTHER -> Ok(e + 1, SubSeq(s, i + 1, e - 1))

assert_stmt(s, i) ==
  LET kw == apply(Preceded(Tag("ASSERT"), Wsc(Tag("("))), s, i)
      e == apply(Cut(Rule("expression")), s, kw.pos)
      comma == apply(Cut(Wsc(Tag(","))), s, e.pos)
      text == apply(Cut(Rule("string")), s, comma.pos)
      close == apply(Cut(Wsc(Tag(")"))), s, text.pos)
      semi == apply(Opt(Tag(";")), s, close.pos)
  IN CASE kw.st # "Ok" -> kw
       [] e.st # "Ok" -> e
       [] comma.st # "Ok" -> comma
       [] text.st # "Ok" -> text
       [] close.st # "Ok" -> close
       [] OTHER ->
         Ok(semi.pos, [t |-> "Assert", expr |-> e.val, text |-> text.val])

\* KEYWORD ( name = expr ) with an optional ";".
special_assign(keyword, variant, s, i) ==
  LET kw == apply(Preceded(Tag(keyword), Wsc(Tag("("))), s, i)
      name == apply(Cut(Rule("symbol")), s, kw.pos)
      eq == apply(Cut(Wsc(Tag("="))), s, name.pos)
      e == apply(Cut(Rule("expression")), s, eq.pos)
      close == apply(Cut(Wsc(Tag(")"))), s, e.pos)
      semi == apply(Opt(Tag(";")), s, close.pos)
  IN CASE kw.st # "Ok" -> kw
       [] name.st # "Ok" -> name
       [] eq.st # "Ok" -> eq
       [] e.st # "Ok" -> e
       [] close.st # "Ok" -> close
       [] OTHER ->
         Ok(semi.pos, [t |-> variant, name |-> name.val, expression |-> e.val])

provide_hidden(s, i) == special_assign("PROVIDE_HIDDEN", "ProvideHidden", s, i)
provide(s, i) == special_assign("PROVIDE", "Provide", s, i)
hidden(s, i) == special_assign("HIDDEN", "Hidden", s, i)

\* name <op> expr ;
assign(s, i) ==
  LET name == symbol(s, i)
      op == apply(Wsc(Operator(AssignOps)), s, name.pos)
      e == apply(Wsc(Rule("expression")), s, op.pos)
      semi == apply(Tag(";"), s, e.pos)
  IN CASE name.st # "Ok" -> name
       [] op.st # "Ok" -> op
       [] e.st # "Ok" -> e
       [] semi.st # "Ok" -> semi
       [] OTHER ->
         Ok(semi.pos, [t |-> "Assign", name |-> name.val, operator |-> op.val,
                       expression |-> e.val])

statement(s, i) ==
  alt5(Rule("assert_stmt"), Rule("provide_hidden"), Rule("provide"), Rule("hidden"), Rule("assign"), s, i)

(***************************************************************************)
(* Commands (commands.rs): name(arg, ...); INCLUDE path; and               *)
(* INSERT BEFORE|AFTER section.                                            *)
(***************************************************************************)
call(s, i) ==
  LET r == call_expr(s, i)
      semi == apply(Preceded(Rule("opt_space"), Opt(Tag(";"))), s, r.pos)
  IN CASE r.st # "Ok" -> r
       [] OTHER ->
         Ok(semi.pos, [t |-> "Call", name |-> r.val.function, arguments |-> r.val.arguments])

include(s, i) ==
  LET kw == apply(Tag("INCLUDE"), s, i)
      file == apply(Wsc(Rule("pattern")), s, kw.pos)
      semi == apply(Opt(Tag(";")), s, file.pos)
  IN CASE kw.st # "Ok" -> kw
       [] file.st # "Ok" -> file
       [] OTHER ->
         Ok(semi.pos, [t |-> "Include", file |-> file.val])

insert_order(s, i) ==
  LET r == apply(AltTags(<<"BEFORE", "AFTER">>), s, i) IN
  IF r.st # "Ok" THEN r
  ELSE Ok(r.pos, IF r.val = "BEFORE" THEN "Before" ELSE "After")

insert(s, i) ==
  LET kw == apply(Tag("INSERT"), s, i)
      order == apply(Wsc(Rule("insert_order")), s, kw.pos)
      section == apply(Wsc(Rule("symbol")), s, order.pos)
      semi == apply(Opt(Tag(";")), s, section.pos)
  IN CASE kw.st # "Ok" -> kw
       [] order.st # "Ok" -> order
       [] section.st # "Ok" -> section
       [] OTHER ->
         Ok(semi.pos, [t |-> "Insert", order |-> order.val, section |-> section.val])

command(s, i) == alt3(Rule("call"), Rule("include"), Rule("insert"), s, i)

(***************************************************************************)
(* Memory regions (memory.rs): name : ORIGIN = x, LENGTH = y               *)
(***************************************************************************)
region(s, i) ==
  LET name == symbol(s, i)
      colon == apply(Wsc(Tag(":")), s, name.pos)
      o == apply(Preceded(Tag("ORIGIN"), Wsc(Tag("="))), s, colon.pos)
      origin == apply(Rule("number"), s, o.pos)
      comma == apply(Wsc(Tag(",")), s, origin.pos)
      l == apply(Preceded(Tag("LENGTH"), Wsc(Tag("="))), s, comma.pos)
      length == apply(Rule("number"), s, l.pos)
  IN CASE name.st # "Ok" -> name
       [] colon.st # "Ok" -> colon
       [] o.st # "Ok" -> o
       [] origin.st # "Ok" -> origin
       [] comma.st # "Ok" -> comma
       [] l.st # "Ok" -> l
       [] length.st # "Ok" -> length
       [] OTHER ->
         Ok(length.pos, [name |-> name.val, origin |-> origin.val, length |-> length.val])

(***************************************************************************)
(* Sections (sections.rs)                                                  *)
(***************************************************************************)
output_section_type(s, i) ==
  LET r == apply(AltTags(<<"(NOLOAD)", "(DSECT)", "(COPY)", "(INFO)", "(OVERLAY)">>), s, i) IN
  IF r.st # "Ok" THEN r ELSE
  Ok(r.pos, CASE r.val = "(NOLOAD)" -> "NoLoad"
              [] r.val = "(DSECT)" -> "DSect"
              [] r.val = "(COPY)" -> "Copy"
              [] r.val = "(INFO)" -> "Info"
              [] r.val = "(OVERLAY)" -> "Overlay")

output_section_constraint(s, i) ==
  LET r == apply(AltTags(<<"ONLY_IF_RO", "ONLY_IF_RW">>), s, i) IN
  IF r.st # "Ok" THEN r ELSE
  Ok(r.pos, IF r.val = "ONLY_IF_RO" THEN "OnlyIfRo" ELSE "OnlyIfRw")

\* The keywords sorted_sp tries, in the order of its alt.
SortKeywords == <<"SORT_BY_NAME", "SORT_BY_ALIGNMENT", "SORT_BY_INIT_PRIORITY",
                  "SORT_NONE", "SORT">>

\* sorted_sp without the "SORT" arm of its match: SORT(x) falls to the panic arm.
sorted_sp_no_sort_arm(s, i) ==
  LET keyword == apply(AltTags(SortKeywords), s, i)
      open == apply(Cut(Wsc(Tag("("))), s, keyword.pos)
      inner == apply(Cut(Rule("pattern")), s, open.pos)
      sp == apply(Cut(Rule("opt_space")), s, inner.pos)
      close == apply(Cut(Tag(")")), s, sp.pos)
  IN CASE keyword.st # "Ok" -> keyword
       [] open.st # "Ok" -> open
       [] inner.st # "Ok" -> inner
       [] sp.st # "Ok" -> sp
       [] close.st # "Ok" -> close
       [] OTHER ->
         (CASE keyword.val = "SORT_BY_NAME" ->
                 Ok(close.pos, [t |-> "SortByName", name |-> inner.val])
            [] keyword.val = "SORT_BY_ALIGNMENT" ->
                 Ok(close.pos, [t |-> "SortByAlignment", name |-> inner.val])
            [] keyword.val = "SORT_BY_INIT_PRIORITY" ->
                 Ok(close.pos, [t |-> "SortByInitPriority", name |-> inner.val])
            [] keyword.val = "SORT_NONE" ->
                 Ok(close.pos, [t |-> "SortNone", name |-> inner.val])
            [] OTHER -> Panic)

sorted_sp(s, i) ==
  LET keyword == apply(AltTags(SortKeywords), s, i)
      open == apply(Cut(Wsc(Tag("("))), s, keyword.pos)
      inner == apply(Cut(Rule("pattern")), s, open.pos)
      sp == apply(Cut(Rule("opt_space")), s, inner.pos)
      close == apply(Cut(Tag(")")), s, sp.pos)
  IN CASE keyword.st # "Ok" -> keyword
       [] open.st # "Ok" -> open
       [] inner.st # "Ok" -> inner
       [] sp.st # "Ok" -> sp
       [] close.st # "Ok" -> close
       [] OTHER ->
         (CASE keyword.val \in {"SORT", "SORT_BY_NAME"} ->
                 Ok(close.pos, [t |-> "SortByName", name |-> inner.val])
            [] keyword.val = "SORT_BY_ALIGNMENT" ->
                 Ok(close.pos, [t |-> "SortByAlignment", name |-> inner.val])
            [] keyword.val = "SORT_BY_INIT_PRIORITY" ->
                 Ok(close.pos, [t |-> "SortByInitPriority", name |-> inner.val])
            [] keyword.val = "SORT_NONE" ->
                 Ok(close.pos, [t |-> "SortNone", name |-> inner.val])
            [] OTHER -> Panic)

\* exclude_file_sp that stops after the file list and binds no pattern.
exclude_file_sp_files_only(s, i) ==
  LET kw == apply(Tag("EXCLUDE_FILE"), s, i)
      open == apply(Preceded(Rule("opt_space"), Tag("(")), s, kw.pos)
      files == apply(Cut(Many1(Wsc(Rule("pattern")))), s, open.pos)
      close == apply(Cut(Tag(")")), s, files.pos)
      sp == apply(Cut(Rule("opt_space")), s, close.pos)
  IN CASE kw.st # "Ok" -> kw
       [] open.st # "Ok" -> open
       [] files.st # "Ok" -> files
       [] close.st # "Ok" -> close
       [] sp.st # "Ok" -> sp
       [] OTHER ->
         Ok(sp.pos, [t |-> "ExcludeFile", files |-> files.val,
                     pattern |-> [t |-> "Simple", name |-> ""]])

\* exclude_file_sp that accepts a file list with no pattern after it.
exclude_file_sp_optional_pattern(s, i) ==
  LET kw == apply(Tag("EXCLUDE_FILE"), s, i)
      open == apply(Preceded(Rule("opt_space"), Tag("(")), s, kw.pos)
      files == apply(Cut(Many1(Wsc(Rule("pattern")))), s, open.pos)
      close == apply(Cut(Tag(")")), s, files.pos)
      sp == apply(Cut(Rule("opt_space")), s, close.pos)
      inner == apply(Rule("section_pattern"), s, sp.pos)
  IN CASE kw.st # "Ok" -> kw
       [] open.st # "Ok" -> open
       [] files.st # "Ok" -> files
       [] close.st # "Ok" -> close
       [] sp.st # "Ok" -> sp
       [] inner.st # "Ok" ->
         Ok(sp.pos, [t |-> "ExcludeFile", files |-> files.val,
                     pattern |-> [t |-> "Simple", name |-> ""]])
       [] OTHER ->
         Ok(inner.pos, [t |-> "ExcludeFile", files |-> files.val, pattern |-> inner.val])

exclude_file_sp(s, i) ==
  LET kw == apply(Tag("EXCLUDE_FILE"), s, i)
      open == apply(Preceded(Rule("opt_space"), Tag("(")), s, kw.pos)
      files == apply(Cut(Many1(Wsc(Rule("pattern")))), s, open.pos)
      close == apply(Cut(Tag(")")), s, files.pos)
      sp == apply(Cut(Rule("opt_space")), s, close.pos)
      inner == apply(Cut(Rule("section_pattern")), s, sp.pos)
  IN CASE kw.st # "Ok" -> kw
       [] open.st # "Ok" -> open
       [] files.st # "Ok" -> files
       [] close.st # "Ok" -> close
       [] sp.st # "Ok" -> sp
       [] inner.st # "Ok" -> inner
       [] OTHER ->
         Ok(inner.pos, [t |-> "ExcludeFile", files |-> files.val, pattern |-> inner.val])

simple_sp(s, i) ==
  LET r == pattern(s, i) IN
  IF r.st # "Ok" THEN r ELSE Ok(r.pos, [t |-> "Simple", name |-> r.val])

section_pattern(s, i) ==
  alt3(Rule("exclude_file_sp"), Rule("sorted_sp"), Rule("simple_sp"), s, i)

data_osc(s, i) ==
  LET d_type == apply(AltTags(<<"BYTE", "SHORT", "LONG", "QUAD">>), s, i)
      open == apply(Wsc(Tag("(")), s, d_type.pos)
      value == apply(Rule("expression"), s, open.pos)
      close == apply(Wsc(Tag(")")), s, value.pos)
      semi == apply(Opt(Tag(";")), s, close.pos)
  IN CASE d_type.st # "Ok" -> d_type
       [] open.st # "Ok" -> open
       [] value.st # "Ok" -> value
       [] close.st # "Ok" -> close
       [] semi.st # "Ok" -> semi
       [] OTHER ->
         (CASE d_type.val = "BYTE" -> Ok(semi.pos, [t |-> "Data", d_type |-> "Byte", value |-> value.val])
            [] d_type.val = "SHORT" -> Ok(semi.pos, [t |-> "Data", d_type |-> "Short", value |-> value.val])
            [] d_type.val = "LONG" -> Ok(semi.pos, [t |-> "Data", d_type |-> "Long", value |-> value.val])
            [] d_type.val = "QUAD" -> Ok(semi.pos, [t |-> "Data", d_type |-> "Quad", value |-> value.val])
            [] OTHER -> Panic)

fill_osc(s, i) ==
  LET kw == apply(Preceded(Tag("FILL"), Wsc(Tag("("))), s, i)
      expr == apply(Rule("expression"), s, kw.pos)
      close == apply(Wsc(Tag(")")), s, expr.pos)
      semi == apply(Opt(Tag(";")), s, close.pos)
  IN CASE kw.st # "Ok" -> kw
       [] expr.st # "Ok" -> expr
       [] close.st # "Ok" -> close
       [] semi.st # "Ok" -> semi
       [] OTHER ->
         Ok(semi.pos, [t |-> "Fill", expr |-> expr.val])

statement_osc(s, i) ==
  LET r == statement(s, i) IN
  IF r.st # "Ok" THEN r ELSE Ok(r.pos, [t |-> "Statement", stmt |-> r.val])

\* The parenthesized section list of input_osc.
section_list(s, i) ==
  apply(Delimited(Wsc(Tag("(")), Many1(Wsc(Rule("section_pattern"))), Wsc(Tag(")"))), s, i)

input_osc(s, i) ==
  LET file == section_pattern(s, i)
      sp == apply(Rule("opt_space"), s, file.pos)
      sections == apply(Opt(Rule("section_list")), s, sp.pos)
  IN CASE file.st # "Ok" -> file
       [] sp.st # "Ok" -> sp
       [] sections.st # "Ok" -> sections
       [] OTHER ->
         Ok(sections.pos,
            [t |-> "InputSection", file |-> file.val,
             sections |-> IF sections.val = None THEN <<>> ELSE sections.val[1]])

keep_osc(s, i) ==
  LET kw == apply(Preceded(Tag("KEEP"), Wsc(Tag("("))), s, i)
      inner == apply(Rule("input_osc"), s, kw.pos)
      close == apply(Wsc(Tag(")")), s, inner.pos)
  IN CASE kw.st # "Ok" -> kw
       [] inner.st # "Ok" -> inner
       [] close.st # "Ok" -> close
       [] inner.val.t = "InputSection" ->
         Ok(close.pos, [t |-> "KeepInputSection", file |-> inner.val.file,
                        sections |-> inner.val.sections])
       [] OTHER -> Panic

output_section_command(s, i) ==
  alt5(Rule("statement_osc"), Rule("keep_osc"), Rule("data_osc"), Rule("fill_osc"), Rule("input_osc"), s, i)

statement_sc(s, i) ==
  LET r == statement(s, i) IN
  IF r.st # "Ok" THEN r ELSE Ok(r.pos, [t |-> "Statement", stmt |-> r.val])

command_sc(s, i) ==
  LET r == command(s, i) IN
  IF r.st # "Ok" THEN r ELSE Ok(r.pos, [t |-> "Command", cmd |-> r.val])

\* opt(delimited(tag(keyword "("), wsc!(expression), tag(")")))
opt_paren_expression(open, s, i) ==
  apply(Opt(Delimited(Tag(open), Wsc(Rule("expression")), Tag(")"))), s, i)

\* opt(preceded(tag(mark), wsc!(P)))
opt_preceded(mark, x, s, i) == apply(Opt(Preceded(Tag(mark), Wsc(x))), s, i)

\* output_sc with the type tag after the VMA address taking precedence.
output_sc_second_wins(s, i) ==
  LET name == alt2(Tag("/DISCARD/"), Rule("symbol"), s, i)
      sp1 == apply(Rule("opt_space"), s, name.pos)
      s_type1 == apply(Opt(Rule("output_section_type")), s, sp1.pos)
      vma == apply(Wsc(Opt(Rule("expression"))), s, s_type1.pos)
      s_type2 == apply(Opt(Rule("output_section_type")), s, vma.pos)
      colon == apply(Wsc(Tag(":")), s, s_type2.pos)
      lma == opt_paren_expression("AT(", s, colon.pos)
      sp2 == apply(Rule("opt_space"), s, lma.pos)
      section_align == opt_paren_expression("ALIGN(", s, sp2.pos)
      align_with_input == apply(Wsc(Opt(Tag("ALIGN_WITH_INPUT"))), s, section_align.pos)
      subsection_align == opt_paren_expression("SUBALIGN(", s, align_with_input.pos)
      constraint == apply(Wsc(Opt(Rule("output_section_constraint"))), s, subsection_align.pos)
      open == apply(Wsc(Tag("{")), s, constraint.pos)
      content == apply(Many0(Wsc(Rule("output_section_command"))), s, open.pos)
      close == apply(Wsc(Tag("}")), s, content.pos)
      out_region == opt_preceded(">", Rule("symbol"), s, close.pos)
      lma_region == opt_preceded("AT>", Rule("symbol"), s, out_region.pos)
      fillexp == opt_preceded("=", Rule("expression"), s, lma_region.pos)
      comma == apply(Opt(Tag(",")), s, fillexp.pos)
  IN CASE name.st # "Ok" -> name
       [] sp1.st # "Ok" -> sp1
       [] s_type1.st # "Ok" -> s_type1
       [] vma.st # "Ok" -> vma
       [] s_type2.st # "Ok" -> s_type2
       [] colon.st # "Ok" -> colon
       [] lma.st # "Ok" -> lma
       [] sp2.st # "Ok" -> sp2
       [] section_align.st # "Ok" -> section_align
       [] align_with_input.st # "Ok" -> align_with_input
       [] subsection_align.st # "Ok" -> subsection_align
       [] constraint.st # "Ok" -> constraint
       [] open.st # "Ok" -> open
       [] content.st # "Ok" -> content
       [] close.st # "Ok" -> close
       [] out_region.st # "Ok" -> out_region
       [] lma_region.st # "Ok" -> lma_region
       [] fillexp.st # "Ok" -> fillexp
       [] comma.st # "Ok" -> comma
       [] OTHER ->
         Ok(comma.pos,
            [t |-> "OutputSection",
             name |-> name.val,
             vma_address |-> vma.val,
             s_type |-> IF s_type2.val # None THEN s_type2.val ELSE s_type1.val,
             lma_address |-> lma.val,
             section_align |-> section_align.val,
             align_with_input |-> align_with_input.val # None,
             subsection_align |-> subsection_align.val,
             constraint |-> constraint.val,
             content |-> content.val,
             region |-> out_region.val,
             lma_region |-> lma_region.val,
             fillexp |-> fillexp.val])

output_sc(s, i) ==
  LET name == alt2(Tag("/DISCARD/"), Rule("symbol"), s, i)
      sp1 == apply(Rule("opt_space"), s, name.pos)
      s_type1 == apply(Opt(Rule("output_section_type")), s, sp1.pos)
      vma == apply(Wsc(Opt(Rule("expression"))), s, s_type1.pos)
      s_type2 == apply(Opt(Rule("output_section_type")), s, vma.pos)
      colon == apply(Wsc(Tag(":")), s, s_type2.pos)
      lma == opt_paren_expression("AT(", s, colon.pos)
      sp2 == apply(Rule("opt_space"), s, lma.pos)
      section_align == opt_paren_expression("ALIGN(", s, sp2.pos)
      align_with_input == apply(Wsc(Opt(Tag("ALIGN_WITH_INPUT"))), s, section_align.pos)
      subsection_align == opt_paren_expression("SUBALIGN(", s, align_with_input.pos)
      constraint == apply(Wsc(Opt(Rule("output_section_constraint"))), s, subsection_align.pos)
      open == apply(Wsc(Tag("{")), s, constraint.pos)
      content == apply(Many0(Wsc(Rule("output_section_command"))), s, open.pos)
      close == apply(Wsc(Tag("}")), s, content.pos)
      out_region == opt_preceded(">", Rule("symbol"), s, close.pos)
      lma_region == opt_preceded("AT>", Rule("symbol"), s, out_region.pos)
      fillexp == opt_preceded("=", Rule("expression"), s, lma_region.pos)
      comma == apply(Opt(Tag(",")), s, fillexp.pos)
  IN CASE name.st # "Ok" -> name
       [] sp1.st # "Ok" -> sp1
       [] s_type1.st # "Ok" -> s_type1
       [] vma.st # "Ok" -> vma
       [] s_type2.st # "Ok" -> s_type2
       [] colon.st # "Ok" -> colon
       [] lma.st # "Ok" -> lma
       [] sp2.st # "Ok" -> sp2
       [] section_align.st # "Ok" -> section_align
       [] align_with_input.st # "Ok" -> align_with_input
       [] subsection_align.st # "Ok" -> subsection_align
       [] constraint.st # "Ok" -> constraint
       [] open.st # "Ok" -> open
       [] content.st # "Ok" -> content
       [] close.st # "Ok" -> close
       [] out_region.st # "Ok" -> out_region
       [] lma_region.st # "Ok" -> lma_region
       [] fillexp.st # "Ok" -> fillexp
       [] comma.st # "Ok" -> comma
       [] OTHER ->
         Ok(comma.pos,
            [t |-> "OutputSection",
             name |-> name.val,
             vma_address |-> vma.val,
             s_type |-> IF s_type1.val # None THEN s_type1.val ELSE s_type2.val,
             lma_address |-> lma.val,
             section_align |-> section_align.val,
             align_with_input |-> align_with_input.val # None,
             subsection_align |-> subsection_align.val,
             constraint |-> constraint.val,
             content |-> content.val,
             region |-> out_region.val,
             lma_region |-> lma_region.val,
             fillexp |-> fillexp.val])

section_command(s, i) ==
  alt3(Rule("statement_sc"), Rule("output_sc"), Rule("command_sc"), s, i)

(***************************************************************************)
(* The root assembler (script.rs)                                          *)
(***************************************************************************)
statement_item(s, i) ==
  LET r == statement(s, i) IN
  IF r.st # "Ok" THEN r ELSE Ok(r.pos, [t |-> "Statement", stmt |-> r.val])

command_item(s, i) ==
  LET r == command(s, i) IN
  IF r.st # "Ok" THEN r ELSE Ok(r.pos, [t |-> "Command", cmd |-> r.val])

memory_item(s, i) ==
  LET kw == apply(Preceded(Tag("MEMORY"), Wsc(Tag("{"))), s, i)
      regions == apply(Many1(Wsc(Rule("region"))), s, kw.pos)
      close == apply(Tag("}"), s, regions.pos)
  IN CASE kw.st # "Ok" -> kw
       [] regions.st # "Ok" -> regions
       [] close.st # "Ok" -> close
       [] OTHER ->
         Ok(close.pos, [t |-> "Memory", regions |-> regions.val])

sections_item(s, i) ==
  LET kw == apply(Preceded(Tag("SECTIONS"), Wsc(Tag("{"))), s, i)
      sections == apply(Many1(Wsc(Rule("section_command"))), s, kw.pos)
      close == apply(Tag("}"), s, sections.pos)
  IN CASE kw.st # "Ok" -> kw
       [] sections.st # "Ok" -> sections
       [] close.st # "Ok" -> close
       [] OTHER ->
         Ok(close.pos, [t |-> "Sections", list |-> sections.val])

root_item(s, i) ==
  alt4(Rule("statement_item"), Rule("memory_item"), Rule("sections_item"), Rule("command_item"), s, i)

\* map(opt_space, |_| vec![]): optional blank text, the empty item list.
no_items(s, i) == LET r == opt_space(s, i) IN Ok(r.pos, <<>>)

\* Runs the parser a term denotes on s from position i (for a Fold term, from
\* the result i of the operand parsed so far).
apply(x, s, i) ==
  CASE x.p = "tag" -> tag(x.x, s, i)
    [] x.p = "alt_tags" -> alt_tags(x.ts, s, i)
    [] x.p = "alt2" -> alt2(x.x, x.y, s, i)
    [] x.p = "fold" -> fold(x.k, x.level, s, i)
    [] x.p = "number" -> number(s, i)
    [] x.p = "primary" -> primary(s, i)
    [] x.p = "operator" -> operator_of(x.ops, s, i)
    [] x.p = "wsc" -> wsc(x.x, s, i)
    [] x.p = "opt" -> opt(x.x, s, i)
    [] x.p = "cut" -> cut(x.x, s, i)
    [] x.p = "many0" -> many0(x.x, s, i)
    [] x.p = "many1" -> many1(x.x, s, i)
    [] x.p = "preceded" -> preceded(x.x, x.y, s, i)
    [] x.p = "delimited" -> delimited(x.x, x.y, x.z, s, i)
    [] x.p = "space_or_comment" -> space_or_comment(s, i)
    [] x.p = "opt_space" -> opt_space(s, i)
    [] x.p = "symbol" -> symbol(s, i)
    [] x.p = "pattern" -> pattern(s, i)
    [] x.p = "string" -> string(s, i)
    [] x.p = "number_expr" -> number_expr(s, i)
    [] x.p = "call_expr" -> call_expr(s, i)
    [] x.p = "ident_expr" -> ident_expr(s, i)
    [] x.p = "paren_expr" -> paren_expr(s, i)
    [] x.p = "expression_list" -> expression_list(s, i)
    [] x.p = "unary" -> unary(s, i)
    [] x.p = "multiplicative" -> multiplicative(s, i)
    [] x.p = "additive" -> additive(s, i)
    [] x.p = "shift" -> shift(s, i)
    [] x.p = "relational" -> relational(s, i)
    [] x.p = "bitwise_and" -> bitwise_and(s, i)
    [] x.p = "bitwise_or" -> bitwise_or(s, i)
    [] x.p = "logic_and" -> logic_and(s, i)
    [] x.p = "logic_or" -> logic_or(s, i)
    [] x.p = "expression" -> expression(s, i)
    [] x.p = "assert_stmt" -> assert_stmt(s, i)
    [] x.p = "provide_hidden" -> provide_hidden(s, i)
    [] x.p = "provide" -> provide(s, i)
    [] x.p = "hidden" -> hidden(s, i)
    [] x.p = "assign" -> assign(s, i)
    [] x.p = "statement" -> statement(s, i)
    [] x.p = "call" -> call(s, i)
    [] x.p = "include" -> include(s, i)
    [] x.p = "insert_order" -> insert_order(s, i)
    [] x.p = "insert" -> insert(s, i)
    [] x.p = "command" -> command(s, i)
    [] x.p = "region" -> region(s, i)
    [] x.p = "output_section_type" -> output_section_type(s, i)
    [] x.p = "output_section_constraint" -> output_section_constraint(s, i)
    [] x.p = "sorted_sp" -> sorted_sp(s, i)
    [] x.p = "exclude_file_sp" -> exclude_file_sp(s, i)
    [] x.p = "simple_sp" -> simple_sp(s, i)
    [] x.p = "section_pattern" -> section_pattern(s, i)
    [] x.p = "data_osc" -> data_osc(s, i)
    [] x.p = "fill_osc" -> fill_osc(s, i)
    [] x.p = "statement_osc" -> statement_osc(s, i)
    [] x.p = "section_list" -> section_list(s, i)
    [] x.p = "input_osc" -> input_osc(s, i)
    [] x.p = "keep_osc" -> keep_osc(s, i)
    [] x.p = "output_section_command" -> output_section_command(s, i)
    [] x.p = "statement_sc" -> statement_sc(s, i)
    [] x.p = "command_sc" -> command_sc(s, i)
    [] x.p = "output_sc" -> output_sc(s, i)
    [] x.p = "section_command" -> section_command(s, i)
    [] x.p = "statement_item" -> statement_item(s, i)
    [] x.p = "command_item" -> command_item(s, i)
    [] x.p = "memory_item" -> memory_item(s, i)
    [] x.p = "sections_item" -> sections_item(s, i)
    [] x.p = "root_item" -> root_item(s, i)
    [] x.p = "no_items" -> no_items(s, i)

\* parse without its second alternative: an input with no root item is an Error.
parse_root_items_only(s) == apply(Many1(Wsc(Rule("root_item"))), s, 1)

parse(s) == apply(Alt2(Many1(Wsc(Rule("root_item"))), Rule("no_items")), s, 1)

(***************************************************************************)
(* The generator (generator.rs).  A generate that reaches unimplemented!() *)
(* returns Aborted; every other one returns Text(the string).              *)
(***************************************************************************)
INDENTATION == 2

Text(x) == [aborted |-> FALSE, text |-> x]
Aborted == [aborted |-> TRUE]

\* u64::to_string: the decimal digits of n.
RECURSIVE to_string(_)
to_string(n) ==
  IF n < 10 THEN SubSeq(DecDigits, n + 1, n + 1)
  ELSE to_string(n \div 10) \o SubSeq(DecDigits, (n % 10) + 1, (n % 10) + 1)

\* format!("{:X}"): the uppercase hexadecimal digits of n.
RECURSIVE to_upper_hex(_)
to_upper_hex(n) ==
  IF n < 16 THEN SubSeq(HexDigits, n + 1, n + 1)
  ELSE to_upper_hex(n \div 16) \o SubSeq(HexDigits, (n % 16) + 1, (n % 16) + 1)

\* [String]::join
RECURSIVE join(_, _)
join(strs, sep) ==
  IF strs = <<>> THEN ""
  ELSE IF Len(strs) = 1 THEN strs[1]
  ELSE strs[1] \o sep \o join(Tail(strs), sep)

RECURSIVE spaces(_)
spaces(n) == IF n = 0 THEN "" ELSE " " \o spaces(n - 1)

\* indent::indent_all_by: every line that is not empty gets n spaces in front.
indent_all_by(n, str) ==
  LET RECURSIVE walk(_)
      walk(j) ==
        IF j > Len(str) THEN ""
        ELSE LET e == find("\n", str, j) IN
             IF e = 0 THEN spaces(n) \o SubSeq(str, j, Len(str))
             ELSE (IF e = j THEN "" ELSE spaces(n) \o SubSeq(str, j, e - 1))
                    \o "\n" \o walk(e + 1)
  IN walk(1)

generate_AssignOperator(op) ==
  CASE op = "Equals" -> "=" [] op = "Plus" -> "+=" [] op = "Minus" -> "-="
    [] op = "Multiply" -> "*=" [] op = "Divide" -> "/=" [] op = "ShiftLeft" -> "<<="
    [] op = "ShiftRight" -> ">>=" [] op = "And" -> "&=" [] op = "Or" -> "|="

generate_UnaryOperator(op) ==
  CASE op = "LogicNot" -> "!" [] op = "Minus" -> "-" [] op = "BitwiseNot" -> "~"

generate_BinaryOperator(op) ==
  CASE op = "Multiply" -> "*" [] op = "Divide" -> "/" [] op = "ShiftLeft" -> "<<"
    [] op = "ShiftRight" -> ">>" [] op = "BitwiseAnd" -> "&" [] op = "BitwiseOr" -> "|"
    [] op = "LogicAnd" -> "&&" [] op = "LogicOr" -> "||" [] op = "Equals" -> "=="
    [] op = "NotEquals" -> "!=" [] op = "Lesser" -> "<" [] op = "Greater" -> ">"
    [] op = "LesserOrEquals" -> "<=" [] op = "GreaterOrEquals" -> ">="
    [] op = "Plus" -> "+" [] op = "Minus" -> "-" [] op = "Remainder" -> "%"

RECURSIVE generate_Expression(_)
generate_Expression(e) ==
  CASE e.t = "Ident" -> e.name
    [] e.t = "Number" -> to_string(e.num)
    [] e.t = "Call" ->
         e.function \o "("
           \o join([n \in 1..Len(e.arguments) |-> generate_Expression(e.arguments[n])], ", ")
           \o ")"
    [] e.t = "UnaryOp" ->
         generate_UnaryOperator(e.operator) \o generate_Expression(e.right)
    [] e.t = "BinaryOp" ->
         generate_Expression(e.left) \o " " \o generate_BinaryOperator(e.operator)
           \o " " \o generate_Expression(e.right)
    [] e.t = "TernaryOp" ->
         generate_Expression(e.condition) \o " ? " \o generate_Expression(e.left)
           \o " : " \o generate_Expression(e.right)

generate_Statement(stmt) ==
  CASE stmt.t = "Assign" ->
         stmt.name \o " " \o generate_AssignOperator(stmt.operator) \o " "
           \o generate_Expression(stmt.expression) \o ";"
    [] stmt.t = "Hidden" ->
         "HIDDEN (" \o stmt.name \o " = " \o generate_Expression(stmt.expression) \o ");"
    [] stmt.t = "Provide" ->
         "PROVIDE (" \o stmt.name \o " = " \o generate_Expression(stmt.expression) \o ");"
    [] stmt.t = "ProvideHidden" ->
         "PROVIDE_HIDDEN (" \o stmt.name \o " = " \o generate_Expression(stmt.expression) \o ");"
    [] stmt.t = "Assert" ->
         "ASSERT ((" \o generate_Expression(stmt.expr) \o "), \"" \o stmt.text \o "\");"

generate_Command(cmd) ==
  CASE cmd.t = "Call" ->
         Text(cmd.name \o "("
                \o join([n \in 1..Len(cmd.arguments) |-> generate_Expression(cmd.arguments[n])], ", ")
                \o ");")
    [] cmd.t = "Include" -> Text("INCLUDE " \o cmd.file \o ";")
    [] cmd.t = "Insert" -> Aborted

\* Region::generate with the K test before the M test.
generate_Region_K_first(r) ==
  LET length == IF r.length % 1024 = 0 THEN to_string(r.length \div 1024) \o "K"
                ELSE IF r.length % (1024 * 1024) = 0
                THEN to_string(r.length \div (1024 * 1024)) \o "M"
                ELSE to_string(r.length)
  IN r.name \o " : ORIGIN = 0x" \o to_upper_hex(r.origin) \o ", LENGTH = " \o length

generate_Region(r) ==
  LET length == IF r.length % (1024 * 1024) = 0
                THEN to_string(r.length \div (1024 * 1024)) \o "M"
                ELSE IF r.length % 1024 = 0 THEN to_string(r.length \div 1024) \o "K"
                ELSE to_string(r.length)
  IN r.name \o " : ORIGIN = 0x" \o to_upper_hex(r.origin) \o ", LENGTH = " \o length

generate_OutputSectionType(s_type) ==
  CASE s_type = "NoLoad" -> "(NOLOAD)" [] s_type = "DSect" -> "(DSECT)"
    [] s_type = "Copy" -> "(COPY)" [] s_type = "Info" -> "(INFO)"
    [] s_type = "Overlay" -> "(OVERLAY)"

generate_OutputSectionConstraint(constraint) ==
  CASE constraint = "OnlyIfRo" -> "ONLY_IF_RO" [] constraint = "OnlyIfRw" -> "ONLY_IF_RW"

generate_DataType(d_type) ==
  CASE d_type = "Byte" -> "BYTE" [] d_type = "Short" -> "SHORT"
    [] d_type = "Long" -> "LONG" [] d_type = "Quad" -> "QUAD"

RECURSIVE generate_SectionPattern(_)
generate_SectionPattern(sp) ==
  CASE sp.t = "Simple" -> sp.name
    [] sp.t = "SortByName" -> "SORT_BY_NAME(" \o sp.name \o ")"
    [] sp.t = "SortByAlignment" -> "SORT_BY_ALIGNMENT(" \o sp.name \o ")"
    [] sp.t = "SortByInitPriority" -> "SORT_BY_INIT_PRIORITY(" \o sp.name \o ")"
    [] sp.t = "SortNone" -> "SORT_NONE(" \o sp.name \o ")"
    [] sp.t = "ExcludeFile" ->
         "EXCLUDE_FILE(" \o join(sp.files, " ") \o ") " \o generate_SectionPattern(sp.pattern)

generate_OutputSectionCommand(osc) ==
  CASE osc.t = "Statement" -> generate_Statement(osc.stmt)
    [] osc.t = "Fill" -> "FILL(" \o generate_Expression(osc.expr) \o ")"
    [] osc.t = "Data" -> generate_DataType(osc.d_type) \o " " \o generate_Expression(osc.value)
    [] osc.t = "InputSection" ->
         generate_SectionPattern(osc.file) \o "("
           \o join([n \in 1..Len(osc.sections) |-> generate_SectionPattern(osc.sections[n])], ", ")
           \o ")"
    [] osc.t = "KeepInputSection" ->
         "KEEP (" \o generate_SectionPattern(osc.file) \o "("
           \o join([n \in 1..Len(osc.sections) |-> generate_SectionPattern(osc.sections[n])], ", ")
           \o "))"

\* The body lines of an output section: "  <command>\n" for each command.
RECURSIVE generate_content(_)
generate_content(content) ==
  IF content = <<>> THEN ""
  ELSE "  " \o generate_OutputSectionCommand(Head(content)) \o "\n"
         \o generate_content(Tail(content))

generate_SectionCommand(sc) ==
  CASE sc.t = "Statement" -> Text(generate_Statement(sc.stmt))
    [] sc.t = "Command" -> generate_Command(sc.cmd)
    [] sc.t = "OutputSection" ->
         Text(sc.name \o " "
              \o (IF sc.vma_address # None
                  THEN "(" \o generate_Expression(sc.vma_address[1]) \o ") " ELSE "")
              \o (IF sc.s_type # None
                  THEN generate_OutputSectionType(sc.s_type[1]) \o " " ELSE "")
              \o ":"
              \o (IF sc.lma_address # None
                  THEN " AT(" \o generate_Expression(sc.lma_address[1]) \o ")," ELSE "")
              \o (IF sc.section_align # None
                  THEN " ALIGN(" \o generate_Expression(sc.section_align[1]) \o ")," ELSE "")
              \o (IF sc.align_with_input THEN " ALIGN_WITH_INPUT," ELSE "")
              \o (IF sc.subsection_align # None
                  THEN " SUBALIGN(" \o generate_Expression(sc.subsection_align[1]) \o ")," ELSE "")
              \o (IF sc.constraint # None
                  THEN " " \o generate_OutputSectionConstraint(sc.constraint[1]) \o "," ELSE "")
              \o " {\n"
              \o generate_content(sc.content)
              \o "}"
              \o (IF sc.region # None THEN " >" \o sc.region[1] \o "," ELSE "")
              \o (IF sc.lma_region # None THEN " AT>" \o sc.lma_region[1] \o ":" ELSE "")
              \o (IF sc.fillexp # None
                  THEN " =" \o generate_Expression(sc.fillexp[1]) \o ";" ELSE ""))

\* The lines of a MEMORY block.
RECURSIVE generate_regions(_)
generate_regions(regions) ==
  IF regions = <<>> THEN ""
  ELSE indent_all_by(INDENTATION, generate_Region(Head(regions))) \o "\n"
         \o generate_regions(Tail(regions))

\* The lines of a SECTIONS block; Aborted when a command's generate aborts.
RECURSIVE generate_list(_)
generate_list(list) ==
  IF list = <<>> THEN Text("")
  ELSE LET first == generate_SectionCommand(Head(list)) IN
       IF first.aborted THEN Aborted ELSE
       LET rest == generate_list(Tail(list)) IN
       IF rest.aborted THEN Aborted ELSE
       Text(indent_all_by(INDENTATION, first.text) \o "\n" \o rest.text)

generate_RootItem(item) ==
  CASE item.t = "Statement" -> Text(generate_Statement(item.stmt) \o "\n")
    [] item.t = "Command" ->
         LET c == generate_Command(item.cmd) IN
         IF c.aborted THEN Aborted ELSE Text(c.text \o "\n")
    [] item.t = "Memory" -> Text("MEMORY {\n" \o generate_regions(item.regions) \o "}\n\n")
    [] item.t = "Sections" ->
         LET l == generate_list(item.list) IN
         IF l.aborted THEN Aborted ELSE Text("SECTIONS {\n" \o l.text \o "}\n\n")

\* impl Generate for Vec<RootItem>
RECURSIVE generate(_)
generate(items) ==
  IF items = <<>> THEN Text("")
  ELSE LET first == generate_RootItem(Head(items)) IN
       IF first.aborted THEN Aborted ELSE
       LET rest == generate(Tail(items)) IN
       IF rest.aborted THEN Aborted ELSE Text(first.text \o rest.text)

(***************************************************************************)
(* Documents: up to MaxItems fragments, one per line.                      *)
(***************************************************************************)
MaxItems == 2

\* Root items the grammar accepts.
ValidFragments ==
  { "a = 1;",
    "PROVIDE(x = (1 + 2) * 3);",
    "ASSERT(a == 0, \"msg\");",
    "ENTRY(Reset)",
    "INCLUDE f.ld;",
    "INSERT AFTER .text;",
    "MEMORY { RAM : ORIGIN = 0x20000000, LENGTH = 64K }",
    "SECTIONS { .text : { *(.text) } >RAM }",
    "SECTIONS { .data : { LONG(0) } }",
    "SECTIONS { .a : { KEEP(*(.init)) FILL(0xff); } }",
    "SECTIONS { .b : { * } }",
    "SECTIONS { INSERT BEFORE .a; }" }

\* Whitespace and comments only.
BlankFragments == { "", " ", "\t ", "/* hello */", "// c" }

\* A construct whose distinguishing prefix is followed by "#", a character
\* of no token.
MalformedFragments ==
  { "MEMORY { # }",
    "SECTIONS { # }",
    "SECTIONS { .a : { KEEP(#) } }",
    "SECTIONS { .a : { BYTE(#) } }",
    "SECTIONS { .a : { FILL(#) } }",
    "SECTIONS { .a : { SORT(#) } }",
    "SECTIONS { .a : { *(EXCLUDE_FILE(#) .t) } }" }

\* Text no root alternative matches.
GarbageFragments == { "}", "#" }

Fragments == ValidFragments \cup BlankFragments \cup MalformedFragments \cup GarbageFragments

FragmentSeqs(S) == UNION { [1..n -> S] : n \in 0..MaxItems }

Docs == { join(fs, "\n") : fs \in FragmentSeqs(Fragments) }

BlankDocs == { join(fs, "\n") : fs \in FragmentSeqs(BlankFragments) }

(***************************************************************************)
(* A document through parse, generate, parse, generate                     *)
(***************************************************************************)
NoResult == [st |-> "None"]

InitDoc ==
  /\ doc \in Docs
  /\ pc = "start"
  /\ parsed = NoResult
  /\ generated = ""
  /\ reparsed = NoResult
  /\ regenerated = ""

IdleDoc ==
  /\ doc = ""
  /\ pc = "idle"
  /\ parsed = NoResult
  /\ generated = ""
  /\ reparsed = NoResult
  /\ regenerated = ""

IdleExpr == etext = "" /\ epc = "idle" /\ etree = NoResult /\ egen = "" /\ etree2 = NoResult
IdleOsc == otext = "" /\ opc = "idle" /\ ores = NoResult /\ oinner = NoResult
           /\ ogen = "" /\ oback = NoResult
IdleRegion == rgn = [name |-> "", origin |-> 0, length |-> 0] /\ rpc = "idle"
              /\ rtext = "" /\ rback = NoResult
IdleSec == sec = NoResult /\ stext = "" /\ spc = "idle" /\ sres = NoResult /\ swhole = NoResult
IdlePat == ptext = "" /\ ppc = "idle" /\ psp = NoResult /\ pin = NoResult
IdleBld ==
  /\ memory_builder = <<>> /\ section_builder = <<>> /\ commands = <<>>
  /\ statements = <<>> /\ additional_content = <<>>
  /\ bpc = "idle" /\ script = "" /\ bparsed = NoResult
  /\ last_call = "" /\ calls = 0 /\ cmdBase = <<>> /\ cmdAdded = <<>>
  /\ stmtBase = <<>> /\ stmtAdded = <<>>
IdleMem == mregions = <<>> /\ madj = <<>> /\ mpc = "idle"
IdleNew == IdleSec /\ IdlePat /\ IdleBld /\ IdleMem

\* let parsed_items = parse(&contents)
Parse ==
  /\ pc = "start"
  /\ parsed' = parse(doc)
  /\ pc' = "parsed"
  /\ UNCHANGED <<doc, generated, reparsed, regenerated, exprVars, oscVars, regionVars, secVars, patVars, bldVars, memVars>>

\* let generated_content = parsed_items.generate()
Generate ==
  /\ pc = "parsed"
  /\ parsed.st = "Ok"
  /\ LET g == generate(parsed.val) IN
     IF g.aborted
     THEN pc' = "aborted" /\ generated' = generated
     ELSE pc' = "generated" /\ generated' = g.text
  /\ UNCHANGED <<doc, parsed, reparsed, regenerated, exprVars, oscVars, regionVars, secVars, patVars, bldVars, memVars>>

\* let reparsed_items = parse(&generated_content)
Reparse ==
  /\ pc = "generated"
  /\ reparsed' = parse(generated)
  /\ pc' = "reparsed"
  /\ UNCHANGED <<doc, parsed, generated, regenerated, exprVars, oscVars, regionVars, secVars, patVars, bldVars, memVars>>

\* reparsed_items.generate()
Regenerate ==
  /\ pc = "reparsed"
  /\ reparsed.st = "Ok"
  /\ LET g == generate(reparsed.val) IN
     IF g.aborted
     THEN pc' = "aborted" /\ regenerated' = regenerated
     ELSE pc' = "regenerated" /\ regenerated' = g.text
  /\ UNCHANGED <<doc, parsed, generated, reparsed, exprVars, oscVars, regionVars, secVars, patVars, bldVars, memVars>>

Init == InitDoc /\ IdleExpr /\ IdleOsc /\ IdleRegion /\ IdleNew
Next == Parse \/ Generate \/ Reparse \/ Regenerate
Spec == Init /\ [][Next]_vars

(***************************************************************************)
(* An expression through expression, generate, expression                  *)
(***************************************************************************)
ExprOperands == <<"1", "2", "3">>
ExprOperators == {"+", "-", "*", "<<", "&", "==", "&&", "||"}

\* x o1 y o2 z, bare and with either pair parenthesized.
BinaryTexts ==
  UNION { { ExprOperands[1] \o " " \o o1 \o " " \o ExprOperands[2] \o " " \o o2 \o " " \o ExprOperands[3],
            "(" \o ExprOperands[1] \o " " \o o1 \o " " \o ExprOperands[2] \o ") " \o o2 \o " " \o ExprOperands[3],
            ExprOperands[1] \o " " \o o1 \o " (" \o ExprOperands[2] \o " " \o o2 \o " " \o ExprOperands[3] \o ")" }
          : <<o1, o2>> \in ExprOperators \X ExprOperators }

OtherTexts ==
  { "1", "a", "f(1, a)", "-a", "-(1 + 2)", "!(a && b)", "~a + 1",
    "a ? 1 : 2", "(a ? 1 : 2) + 3", "a ? (b ? 1 : 2) : 3", "(a)", "((1 + 2))" }

ExprTexts == BinaryTexts \cup OtherTexts

InitExprVars ==
  /\ etext \in ExprTexts
  /\ epc = "start"
  /\ etree = NoResult
  /\ egen = ""
  /\ etree2 = NoResult

\* expression(text)
ParseExpr ==
  /\ epc = "start"
  /\ etree' = apply(Rule("expression"), etext, 1)
  /\ epc' = "parsed"
  /\ UNCHANGED <<etext, egen, etree2, docVars, oscVars, regionVars, secVars, patVars, bldVars, memVars>>

\* Expression::generate
GenerateExpr ==
  /\ epc = "parsed"
  /\ etree.st = "Ok"
  /\ egen' = generate_Expression(etree.val)
  /\ epc' = "generated"
  /\ UNCHANGED <<etext, etree, etree2, docVars, oscVars, regionVars, secVars, patVars, bldVars, memVars>>

\* expression(generated)
ReparseExpr ==
  /\ epc = "generated"
  /\ etree2' = apply(Rule("expression"), egen, 1)
  /\ epc' = "reparsed"
  /\ UNCHANGED <<etext, etree, egen, docVars, oscVars, regionVars, secVars, patVars, bldVars, memVars>>

InitExpr == IdleDoc /\ InitExprVars /\ IdleOsc /\ IdleRegion /\ IdleNew
NextExpr == ParseExpr \/ GenerateExpr \/ ReparseExpr
SpecExpr == InitExpr /\ [][NextExpr]_vars

(***************************************************************************)
(* A text through output_section_command, and the content of KEEP(...)     *)
(* through input_osc                                                       *)
(***************************************************************************)
\* Well-formed input-section forms.
InputForms ==
  { "*", "*(.text)", "*(.text .data)", "foo.o(.a)", "SORT(*)",
    "SORT_BY_NAME(*)(.ctors)", "SORT_BY_ALIGNMENT(*)(.t)",
    "*(SORT_BY_INIT_PRIORITY(.init) SORT_NONE(.x))",
    "*(EXCLUDE_FILE(a.o b.o) .t)", "EXCLUDE_FILE(a.o) *(.t)" }

\* Data commands, a FILL, a statement, nothing.
OtherForms == { "LONG(0)", "BYTE(1)", "SHORT(2)", "QUAD(3);", "FILL(0)", "a = 1;", "" }

KeepContents == InputForms \cup OtherForms

KeepTexts == { "KEEP(" \o c \o ")" : c \in KeepContents }

\* Every keyword of the section grammar before every kind of remainder.
OscKeywords ==
  { "SORT_BY_NAME", "SORT_BY_ALIGNMENT", "SORT_BY_INIT_PRIORITY", "SORT_NONE", "SORT",
    "BYTE", "SHORT", "LONG", "QUAD", "KEEP", "FILL", "EXCLUDE_FILE", "*" }

OscRemainders ==
  { "", "(", "()", "(*)", "(0)", "(#)", "(*", "(*)(.t)", " ( .t ) ", "(SORT(*))",
    "(KEEP(*))", "(LONG(0))", " = 1;" }

KeywordTexts == { k \o r : <<k, r>> \in OscKeywords \X OscRemainders }

\* *(EXCLUDE_FILE(f1) s1 EXCLUDE_FILE(f2) s2)
ExcludedFiles == { <<"*a">>, <<"*b">>, <<"a.o", "b.o">> }
ExcludedSections == { ".text", ".c" }
ExcludePair(f1, s1, f2, s2) ==
  "*(EXCLUDE_FILE(" \o join(f1, " ") \o ") " \o s1
    \o " EXCLUDE_FILE(" \o join(f2, " ") \o ") " \o s2 \o ")"
ExcludeTexts ==
  { ExcludePair(f1, s1, f2, s2) :
      f1 \in ExcludedFiles, s1 \in ExcludedSections,
      f2 \in ExcludedFiles, s2 \in ExcludedSections }

OscTexts == KeepTexts \cup KeywordTexts \cup InputForms \cup OtherForms \cup ExcludeTexts

InitOscVars ==
  /\ otext \in OscTexts
  /\ opc = "start"
  /\ ores = NoResult
  /\ oinner = NoResult
  /\ ogen = ""
  /\ oback = NoResult

\* output_section_command(text)
ParseOsc ==
  /\ opc = "start"
  /\ ores' = apply(Rule("output_section_command"), otext, 1)
  /\ opc' = "parsed"
  /\ UNCHANGED <<otext, oinner, ogen, oback, docVars, exprVars, regionVars, secVars, patVars, bldVars, memVars>>

\* input_osc(c) for text KEEP(c)
ParseInner ==
  /\ opc = "parsed"
  /\ \E c \in KeepContents :
       /\ otext = "KEEP(" \o c \o ")"
       /\ oinner' = apply(Rule("input_osc"), c, 1)
  /\ opc' = "compared"
  /\ UNCHANGED <<otext, ores, ogen, oback, docVars, exprVars, regionVars, secVars, patVars, bldVars, memVars>>

\* OutputSectionCommand::generate of a parsed input section
GenerateOsc ==
  /\ opc = "parsed"
  /\ ores.st = "Ok"
  /\ ores.val.t \in {"InputSection", "KeepInputSection"}
  /\ ogen' = generate_OutputSectionCommand(ores.val)
  /\ opc' = "generated"
  /\ UNCHANGED <<otext, ores, oinner, oback, docVars, exprVars, regionVars, secVars, patVars, bldVars, memVars>>

\* output_section_command(generated)
ReparseOsc ==
  /\ opc = "generated"
  /\ oback' = apply(Rule("output_section_command"), ogen, 1)
  /\ opc' = "reparsed"
  /\ UNCHANGED <<otext, ores, oinner, ogen, docVars, exprVars, regionVars, secVars, patVars, bldVars, memVars>>

InitOsc == IdleDoc /\ IdleExpr /\ InitOscVars /\ IdleRegion /\ IdleNew
NextOsc == ParseOsc \/ ParseInner \/ GenerateOsc \/ ReparseOsc
SpecOsc == InitOsc /\ [][NextOsc]_vars

(***************************************************************************)
(* A region through generate and back through region                       *)
(***************************************************************************)
MaxMega == 3
MaxKilo == 3
MaxUnits == 2

\* Multiples of 1 MiB, of 1 KiB, and neither, with 0.
Lengths ==
  { m * (1024 * 1024) + k * 1024 + u : m \in 0..MaxMega, k \in 0..MaxKilo, u \in 0..MaxUnits }
    \cup { 65536, 1000 }

Origins == { 0, 134217728 }

InitRegionVars ==
  /\ rgn \in [name : {"RAM"}, origin : Origins, length : Lengths]
  /\ rpc = "start"
  /\ rtext = ""
  /\ rback = NoResult

\* Region::generate
GenerateRegion ==
  /\ rpc = "start"
  /\ rtext' = generate_Region(rgn)
  /\ rpc' = "generated"
  /\ UNCHANGED <<rgn, rback, docVars, exprVars, oscVars, secVars, patVars, bldVars, memVars>>

\* region(generated)
ReadRegion ==
  /\ rpc = "generated"
  /\ rback' = apply(Rule("region"), rtext, 1)
  /\ rpc' = "read"
  /\ UNCHANGED <<rgn, rtext, docVars, exprVars, oscVars, secVars, patVars, bldVars, memVars>>

InitRegion == IdleDoc /\ IdleExpr /\ IdleOsc /\ InitRegionVars /\ IdleNew
NextRegion == GenerateRegion \/ ReadRegion
SpecRegion == InitRegion /\ [][NextRegion]_vars

(***************************************************************************)
(* An output section through generate and output_sc, or a header text      *)
(* through output_sc                                                        *)
(***************************************************************************)
TypeTags == <<"(NOLOAD)", "(DSECT)", "(COPY)", "(INFO)", "(OVERLAY)">>
TypeNames == <<"NoLoad", "DSect", "Copy", "Info", "Overlay">>
TypeChoices == 0..Len(TypeTags)
TagText(k) == IF k = 0 THEN "" ELSE TypeTags[k]
VmaTexts == { "", "0x100", "1 + 2" }

\* name, tag, VMA address, tag, colon, empty body
HeaderText(k1, vma, k2) ==
  ".a " \o TagText(k1) \o " " \o vma \o " " \o TagText(k2) \o " : { }"

HeaderTexts == { HeaderText(k1, vma, k2) : k1 \in TypeChoices, vma \in VmaTexts, k2 \in TypeChoices }

Num(n) == [t |-> "Number", num |-> n]
Ident(n) == [t |-> "Ident", name |-> n]

PlainSection ==
  [t |-> "OutputSection", name |-> ".a", vma_address |-> None, s_type |-> None,
   lma_address |-> None, section_align |-> None, align_with_input |-> FALSE,
   subsection_align |-> None, constraint |-> None, content |-> <<>>,
   region |-> None, lma_region |-> None, fillexp |-> None]

Contents ==
  { <<>>,
    << [t |-> "InputSection", file |-> [t |-> "Simple", name |-> "*"],
        sections |-> << [t |-> "Simple", name |-> ".text"] >>] >> }

\* Every subset of the header fields, no trailer.
HeaderSections ==
  { [PlainSection EXCEPT !.vma_address = v, !.s_type = ty, !.lma_address = l,
                         !.section_align = a, !.align_with_input = w,
                         !.subsection_align = sa, !.constraint = c, !.content = b] :
      v \in {None, Some(Num(256)), Some(Ident("NOLOAD"))},
      ty \in {None, Some("NoLoad"), Some("Copy")},
      l \in {None, Some(Num(1))}, a \in {None, Some(Num(4))}, w \in BOOLEAN,
      sa \in {None, Some(Num(8))}, c \in {None, Some("OnlyIfRo")}, b \in Contents }

\* Every subset of the trailer fields, no header field.
TrailerSections ==
  { [PlainSection EXCEPT !.region = r, !.lma_region = lr, !.fillexp = f, !.content = b] :
      r \in {None, Some("RAM")}, lr \in {None, Some("ROM")},
      f \in {None, Some(Num(255))}, b \in Contents }

OutputSections == HeaderSections \cup TrailerSections

InitSecVars ==
  /\ \/ sec \in OutputSections /\ stext = "" /\ spc = "tree"
     \/ sec = NoResult /\ stext \in HeaderTexts /\ spc = "generated"
  /\ sres = NoResult
  /\ swhole = NoResult

\* SectionCommand::generate
GenerateSc ==
  /\ spc = "tree"
  /\ stext' = generate_SectionCommand(sec).text
  /\ spc' = "generated"
  /\ UNCHANGED <<sec, sres, swhole, docVars, exprVars, oscVars, regionVars, patVars, bldVars, memVars>>

\* output_sc(text)
ParseSc ==
  /\ spc = "generated"
  /\ sres' = apply(Rule("output_sc"), stext, 1)
  /\ spc' = "parsed"
  /\ UNCHANGED <<sec, stext, swhole, docVars, exprVars, oscVars, regionVars, patVars, bldVars, memVars>>

\* The section twice in a SECTIONS block, generated and parsed.
ParseEnclosed ==
  /\ spc = "parsed"
  /\ sec # NoResult
  /\ swhole' = parse(generate(<< [t |-> "Sections", list |-> <<sec, sec>>] >>).text)
  /\ spc' = "enclosed"
  /\ UNCHANGED <<sec, stext, sres, docVars, exprVars, oscVars, regionVars, patVars, bldVars, memVars>>

InitSc == IdleDoc /\ IdleExpr /\ IdleOsc /\ IdleRegion /\ InitSecVars /\ IdlePat /\ IdleBld /\ IdleMem
NextSc == GenerateSc \/ ParseSc \/ ParseEnclosed
SpecSc == InitSc /\ [][NextSc]_vars

(***************************************************************************)
(* A LinkerScriptBuilder (builder.rs): calls, then generate, then parse    *)
(***************************************************************************)
MaxCalls == 3

\* with_commands: the list is replaced.
with_commands_extend(old, items) == old \o items
with_commands(old, items) == items

\* with_command: one item is pushed.
with_command(old, item) == Append(old, item)

\* with_statements, with_statement
with_statements(old, items) == items
with_statement(old, item) == Append(old, item)

\* impl Generate for LinkerScriptBuilder: the root items, in the order
\* Memory, Sections, commands, statements.
root_items(mb, sb, cs, ss) ==
  << [t |-> "Memory", regions |-> mb], [t |-> "Sections", list |-> sb] >>
    \o [n \in 1..Len(cs) |-> [t |-> "Command", cmd |-> cs[n]]]
    \o [n \in 1..Len(ss) |-> [t |-> "Statement", stmt |-> ss[n]]]

\* script.push('\n'); script.push_str(&content) for each additional content
RECURSIVE push_contents(_, _)
push_contents(text, contents) ==
  IF contents = <<>> THEN text
  ELSE push_contents(text \o "\n" \o Head(contents), Tail(contents))

generate_LinkerScriptBuilder(mb, sb, cs, ss, ac) ==
  LET g == generate(root_items(mb, sb, cs, ss)) IN
  IF g.aborted THEN Aborted ELSE Text(push_contents(g.text, ac))

\* What the calls are made with.
MemoryBuilders ==
  { <<>>, << [name |-> "RAM", origin |-> 536870912, length |-> 65536] >> }
SectionBuilders ==
  { <<>>,
    << [PlainSection EXCEPT !.name = ".text", !.content =
          << [t |-> "InputSection", file |-> [t |-> "Simple", name |-> "*"],
              sections |-> << [t |-> "Simple", name |-> ".text"] >>] >>,
          !.region = Some("RAM")] >> }
BuilderCommands ==
  { [t |-> "Call", name |-> "ENTRY", arguments |-> << Ident("Reset") >>],
    [t |-> "Include", file |-> "f.ld"] }
CommandLists ==
  { <<>>, << [t |-> "Include", file |-> "g.ld"] >>,
    << [t |-> "Include", file |-> "g.ld"],
       [t |-> "Call", name |-> "ENTRY", arguments |-> << Ident("Reset") >>] >> }
BuilderStatements ==
  { [t |-> "Assign", name |-> "a", operator |-> "Equals", expression |-> Num(1)] }
StatementLists ==
  { <<>>, << [t |-> "Provide", name |-> "x", expression |-> Num(2)] >> }
AdditionalContents == { "b = 2;" }

\* LinkerScriptBuilder::default()
InitBldVars ==
  /\ memory_builder = <<>> /\ section_builder = <<>> /\ commands = <<>>
  /\ statements = <<>> /\ additional_content = <<>>
  /\ bpc = "building" /\ script = "" /\ bparsed = NoResult
  /\ last_call = "" /\ calls = 0 /\ cmdBase = <<>> /\ cmdAdded = <<>>
  /\ stmtBase = <<>> /\ stmtAdded = <<>>

Building(name) ==
  /\ bpc = "building"
  /\ calls < MaxCalls
  /\ calls' = calls + 1
  /\ last_call' = name
  /\ UNCHANGED <<bpc, script, bparsed, docVars, exprVars, oscVars, regionVars, secVars, patVars, memVars>>

WithMemory ==
  /\ Building("with_memory")
  /\ \E mb \in MemoryBuilders : memory_builder' = mb
  /\ UNCHANGED <<section_builder, commands, statements, additional_content,
                 cmdBase, cmdAdded, stmtBase, stmtAdded>>

WithSections ==
  /\ Building("with_sections")
  /\ \E sb \in SectionBuilders : section_builder' = sb
  /\ UNCHANGED <<memory_builder, commands, statements, additional_content,
                 cmdBase, cmdAdded, stmtBase, stmtAdded>>

WithCommands ==
  /\ Building("with_commands")
  /\ \E cs \in CommandLists :
       /\ commands' = with_commands(commands, cs)
       /\ cmdBase' = cs
       /\ cmdAdded' = <<>>
  /\ UNCHANGED <<memory_builder, section_builder, statements, additional_content,
                 stmtBase, stmtAdded>>

WithCommand ==
  /\ Building("with_command")
  /\ \E c \in BuilderCommands :
       /\ commands' = with_command(commands, c)
       /\ cmdAdded' = Append(cmdAdded, c)
  /\ UNCHANGED <<memory_builder, section_builder, statements, additional_content,
                 cmdBase, stmtBase, stmtAdded>>

WithStatements ==
  /\ Building("with_statements")
  /\ \E ss \in StatementLists :
       /\ statements' = with_statements(statements, ss)
       /\ stmtBase' = ss
       /\ stmtAdded' = <<>>
  /\ UNCHANGED <<memory_builder, section_builder, commands, additional_content,
                 cmdBase, cmdAdded>>

WithStatement ==
  /\ Building("with_statement")
  /\ \E st \in BuilderStatements :
       /\ statements' = with_statement(statements, st)
       /\ stmtAdded' = Append(stmtAdded, st)
  /\ UNCHANGED <<memory_builder, section_builder, commands, additional_content,
                 cmdBase, cmdAdded, stmtBase>>

WithAdditionalContent ==
  /\ Building("with_additional_content")
  /\ \E c \in AdditionalContents : additional_content' = Append(additional_content, c)
  /\ UNCHANGED <<memory_builder, section_builder, commands, statements,
                 cmdBase, cmdAdded, stmtBase, stmtAdded>>

\* builder.generate()
GenerateScript ==
  /\ bpc = "building"
  /\ LET g == generate_LinkerScriptBuilder(memory_builder, section_builder, commands,
                                           statements, additional_content) IN
     IF g.aborted
     THEN bpc' = "aborted" /\ script' = script
     ELSE bpc' = "generated" /\ script' = g.text
  /\ UNCHANGED <<builderFields, bparsed, historyVars,
                 docVars, exprVars, oscVars, regionVars, secVars, patVars, memVars>>

\* parse(&script)
ParseScript ==
  /\ bpc = "generated"
  /\ bparsed' = parse(script)
  /\ bpc' = "parsed"
  /\ UNCHANGED <<builderFields, script, historyVars,
                 docVars, exprVars, oscVars, regionVars, secVars, patVars, memVars>>

InitBld == IdleDoc /\ IdleExpr /\ IdleOsc /\ IdleRegion /\ IdleSec /\ IdlePat /\ InitBldVars /\ IdleMem
NextBld ==
  \/ WithMemory \/ WithSections \/ WithCommands \/ WithCommand
  \/ WithStatements \/ WithStatement \/ WithAdditionalContent
  \/ GenerateScript \/ ParseScript
SpecBld == InitBld /\ [][NextBld]_vars

(***************************************************************************)
(* An EXCLUDE_FILE text through section_pattern and input_osc              *)
(***************************************************************************)
ExcludeHeads == { "EXCLUDE_FILE(", "EXCLUDE_FILE (" }
ExcludeLists == { "*a", " *a *b ", "a.o" }

\* EXCLUDE_FILE(files) with no pattern after it.
IncompleteTexts ==
  { h \o f \o ")" \o r : h \in ExcludeHeads, f \in ExcludeLists, r \in {"", " ", ")", " }"} }

\* An EXCLUDE_FILE(...) construct inside the file list.
NestedTexts ==
  { h \o pre \o h2 \o f \o ") *c ) .d" :
      h \in ExcludeHeads, pre \in {" ", " *x "}, h2 \in ExcludeHeads, f \in ExcludeLists }

\* EXCLUDE_FILE(files) and then a plain, sorted or exclude-file pattern.
CompleteTexts ==
  { h \o f \o ") " \o n :
      h \in ExcludeHeads, f \in ExcludeLists,
      n \in {".c", "SORT(.c)", "SORT_BY_ALIGNMENT(.c)", "EXCLUDE_FILE(*z) .c"} }

PatternTexts == IncompleteTexts \cup NestedTexts \cup CompleteTexts

InitPatVars ==
  /\ ptext \in PatternTexts
  /\ ppc = "start"
  /\ psp = NoResult
  /\ pin = NoResult

\* section_pattern(text)
ParsePattern ==
  /\ ppc = "start"
  /\ psp' = apply(Rule("section_pattern"), ptext, 1)
  /\ ppc' = "pattern"
  /\ UNCHANGED <<ptext, pin, docVars, exprVars, oscVars, regionVars, secVars, bldVars, memVars>>

\* input_osc(text)
ParseInput ==
  /\ ppc = "pattern"
  /\ pin' = apply(Rule("input_osc"), ptext, 1)
  /\ ppc' = "input"
  /\ UNCHANGED <<ptext, psp, docVars, exprVars, oscVars, regionVars, secVars, bldVars, memVars>>

InitPat == IdleDoc /\ IdleExpr /\ IdleOsc /\ IdleRegion /\ IdleSec /\ InitPatVars /\ IdleBld /\ IdleMem
NextPat == ParsePattern \/ ParseInput
SpecPat == InitPat /\ [][NextPat]_vars

(***************************************************************************)
(* A MemoryBuilder (builder.rs).  A u64 is four 16-bit limbs, most         *)
(* significant first, so that sums are exact up to 2^64.                   *)
(***************************************************************************)
LimbBase == 65536
MaxRegions == 2

U64(a, b, c, d) == <<a, b, c, d>>

\* a + b on u64: the wrapped sum and whether it overflowed.
add_u64(a, b) ==
  LET s4 == a[4] + b[4]
      s3 == a[3] + b[3] + s4 \div LimbBase
      s2 == a[2] + b[2] + s3 \div LimbBase
      s1 == a[1] + b[1] + s2 \div LimbBase
  IN [sum |-> <<s1 % LimbBase, s2 % LimbBase, s3 % LimbBase, s4 % LimbBase>>,
      overflow |-> s1 \div LimbBase # 0]

\* 0, 1, 64K, 2^32, 2^63, 2^64 - 64K, 2^64 - 1
Values64 ==
  { U64(0, 0, 0, 0), U64(0, 0, 0, 1), U64(0, 0, 1, 0), U64(0, 1, 0, 0),
    U64(32768, 0, 0, 0), U64(65535, 65535, 65535, 0), U64(65535, 65535, 65535, 65535) }

InitMemVars == mregions = <<>> /\ madj = <<>> /\ mpc = "building"

\* MemoryBuilder::with_region
WithRegion ==
  /\ mpc = "building"
  /\ Len(mregions) < MaxRegions
  /\ \E origin \in Values64, length \in Values64 :
       mregions' = Append(mregions, [name |-> "R", origin |-> origin, length |-> length])
  /\ madj' = Append(madj, FALSE)
  /\ UNCHANGED <<mpc, docVars, exprVars, oscVars, regionVars, secVars, patVars, bldVars>>

\* MemoryBuilder::with_adjacent_region.  last().unwrap() panics on an empty
\* list; an overflowing sum panics when overflow checks are on and wraps
\* when they are off.
WithAdjacentRegion ==
  /\ mpc = "building"
  /\ Len(mregions) < MaxRegions
  /\ \E length \in Values64 :
       IF mregions = <<>>
       THEN mpc' = "panicked" /\ UNCHANGED <<mregions, madj>>
       ELSE LET last_region == mregions[Len(mregions)]
                origin == add_u64(last_region.origin, last_region.length)
                pushed ==
                  /\ mregions' = Append(mregions, [name |-> "R", origin |-> origin.sum,
                                                   length |-> length])
                  /\ madj' = Append(madj, TRUE)
                  /\ mpc' = mpc
            IN IF origin.overflow
               THEN \/ mpc' = "panicked" /\ UNCHANGED <<mregions, madj>>
                    \/ pushed
               ELSE pushed
  /\ UNCHANGED <<docVars, exprVars, oscVars, regionVars, secVars, patVars, bldVars>>

InitMem == IdleDoc /\ IdleExpr /\ IdleOsc /\ IdleRegion /\ IdleSec /\ IdlePat /\ IdleBld /\ InitMemVars
NextMem == WithRegion \/ WithAdjacentRegion
SpecMem == InitMem /\ [][NextMem]_vars

(***************************************************************************)
(* Properties                                                              *)
(***************************************************************************)

\* C1: round trip. Whenever a document was parsed, generated and parsed
\* again, the second parse accepts the generated text and returns the same
\* tree as the first parse.
C1_RoundTrip ==
  pc \in {"reparsed", "regenerated"} =>
    /\ reparsed.st = "Ok"
    /\ reparsed.val = parsed.val

\* C2: idempotent generation. The text generated from a parsed tree is
\* accepted by parse, and generating again from its parse gives the same
\* text.
C2_IdempotentGeneration ==
  /\ pc = "reparsed" => reparsed.st = "Ok"
  /\ pc = "regenerated" => regenerated = generated

\* C3: whole-document failure. parse never reports success while input
\* that is not whitespace is left after the position it stopped at.
C3_WholeDocumentFailure ==
  (pc # "start" /\ parsed.st = "Ok") =>
    \A k \in parsed.pos..Len(doc) : At(doc, k) \in Spaces

\* C4: generation is total. generate returns a string for every tree parse
\* returns; it never aborts.
C4_GenerationTotal == pc # "aborted"

\* C5: committed failure. A document that is one construct whose
\* distinguishing prefix is followed by malformed content makes parse
\* return an unrecoverable failure.
C5_CommittedFailure ==
  (pc # "start" /\ doc \in MalformedFragments) => parsed.st = "Failure"

\* C6: parsing never panics. For every text, output_section_command and
\* input_osc return a success or a typed error; the panic arms of sorted_sp,
\* data_osc and keep_osc are never taken.
C6_NeverPanics == ores.st # "Panic" /\ oinner.st # "Panic"

\* A sort keyword, a data keyword and KEEP were each matched and the match on
\* the keyword taken: KEEP(SORT(*)) parsed to a KeepInputSection of
\* SortByName.
C6_SortedKeepParsed ==
  /\ otext = "KEEP(SORT(*))"
  /\ opc = "compared"
  /\ ores = Ok(14, [t |-> "KeepInputSection",
                    file |-> [t |-> "SortByName", name |-> "*"], sections |-> <<>>])

\* C7: empty document. parse of an empty document, or of one made only of
\* whitespace and comments, is a success with an empty list of root items
\* that consumed the whole input.
C7_EmptyDocument ==
  (pc # "start" /\ doc \in BlankDocs) => parsed = Ok(Len(doc) + 1, <<>>)

\* A document of a comment and whitespace was parsed.
C7_CommentOnlyParsed ==
  /\ doc = "/* hello */\n\t "
  /\ pc = "parsed"
  /\ parsed.st = "Ok"

\* The LENGTH text prescribed for a length l.
RenderedLength(l) ==
  IF l % 1048576 = 0 THEN to_string(l \div 1048576) \o "M"
  ELSE IF l % 1024 = 0 THEN to_string(l \div 1024) \o "K"
  ELSE to_string(l)

\* C8: region length formatting. The generated region ends in L/1048576 and
\* M when 1048576 divides L, else in L/1024 and K when 1024 divides L, else
\* in the decimal digits of L; read back, the length is L.
C8_RegionLength ==
  /\ rpc \in {"generated", "read"} =>
       rtext = rgn.name \o " : ORIGIN = 0x" \o to_upper_hex(rgn.origin)
                 \o ", LENGTH = " \o RenderedLength(rgn.length)
  /\ rpc = "read" =>
       /\ rback.st = "Ok"
       /\ rback.pos = Len(rtext) + 1
       /\ rback.val = rgn

\* A length that both 1024 and 1048576 divide was rendered with M and read
\* back.
C8_MegaRead ==
  /\ rgn.length = 2 * 1048576
  /\ rpc = "read"
  /\ rtext = "RAM : ORIGIN = 0x8000000, LENGTH = 2M"
  /\ rback.st = "Ok"

\* C9: expression grouping survives generation. Parsing the text generated
\* from an expression tree returns that tree.
C9_GroupingSurvives ==
  epc = "reparsed" => etree2.st = "Ok" /\ etree2.val = etree.val

\* C10: KEEP wrapping. KEEP(c) for a well-formed input-section form c is the
\* KeepInputSection of the file pattern and section list input_osc returns
\* for c; KEEP(c) for any other c is not a success.
C10_KeepWrapping ==
  \A c \in KeepContents :
    (otext = "KEEP(" \o c \o ")" /\ opc = "compared") =>
      IF c \in InputForms
      THEN /\ oinner.st = "Ok"
           /\ ores = Ok(Len(otext) + 1,
                        [t |-> "KeepInputSection", file |-> oinner.val.file,
                         sections |-> oinner.val.sections])
      ELSE ores.st # "Ok"

\* C11: exclude-file nesting. *(EXCLUDE_FILE(f1) s1 EXCLUDE_FILE(f2) s2) is
\* one InputSection of file * whose section list has two elements in source
\* order, each EXCLUDE_FILE holding its files and the one pattern after it.
C11_ExcludeFileNesting ==
  \A f1 \in ExcludedFiles, f2 \in ExcludedFiles :
    \A s1 \in ExcludedSections, s2 \in ExcludedSections :
      (otext = ExcludePair(f1, s1, f2, s2) /\ opc # "start") =>
        ores = Ok(Len(otext) + 1,
                  [t |-> "InputSection",
                   file |-> [t |-> "Simple", name |-> "*"],
                   sections |->
                     << [t |-> "ExcludeFile", files |-> f1,
                         pattern |-> [t |-> "Simple", name |-> s1]],
                        [t |-> "ExcludeFile", files |-> f2,
                         pattern |-> [t |-> "Simple", name |-> s2]] >>])

\* The text of the source's test was parsed to a list of two elements.
C11_TwoExcludesParsed ==
  /\ otext = "*(EXCLUDE_FILE(*a) .text EXCLUDE_FILE(*b) .c)"
  /\ opc = "parsed"
  /\ ores.st = "Ok"
  /\ Len(ores.val.sections) = 2

\* C12: section type, first occurrence wins. The s_type of a parsed output
\* section is the tag after the name when there is one, else the tag after
\* the VMA address, else none; a second tag is not an error.
C12_FirstTypeWins ==
  \A k1 \in TypeChoices, k2 \in TypeChoices : \A vma \in VmaTexts :
    (stext = HeaderText(k1, vma, k2) /\ spc = "parsed") =>
      /\ sres.st = "Ok"
      /\ sres.val.s_type = IF k1 # 0 THEN Some(TypeNames[k1])
                           ELSE IF k2 # 0 THEN Some(TypeNames[k2])
                           ELSE None

\* A header with a tag in both positions around a VMA address was parsed.
C12_BothTagsParsed ==
  /\ stext = HeaderText(1, "0x100", 3)
  /\ spc = "parsed"
  /\ sres.st = "Ok"
  /\ sres.val.vma_address = Some(Num(256))
  /\ sres.val.s_type = Some("NoLoad")

\* The header fields of an output section.
HeaderOf(os) ==
  <<os.vma_address, os.s_type, os.lma_address, os.section_align,
    os.align_with_input, os.subsection_align, os.constraint>>

\* C14: output-section header round trip. The text generated for an output
\* section with any subset of header fields set is accepted by output_sc and
\* parses back to the same value in every header field.
C14_HeaderRoundTrip ==
  (sec \in HeaderSections /\ spc \in {"parsed", "enclosed"}) =>
    /\ sres.st = "Ok"
    /\ HeaderOf(sres.val) = HeaderOf(sec)

\* The trailer fields of an output section.
TrailerOf(os) == <<os.region, os.lma_region, os.fillexp>>

\* C15: output-section trailer round trip. The trailer generated for any
\* subset of region, lma_region and fillexp is consumed whole by output_sc,
\* parses back to the same three fields, and lets a following section
\* command and the closing brace of SECTIONS parse.
C15_TrailerRoundTrip ==
  /\ (sec \in TrailerSections /\ spc \in {"parsed", "enclosed"}) =>
       /\ sres.st = "Ok"
       /\ sres.pos = Len(stext) + 1
       /\ TrailerOf(sres.val) = TrailerOf(sec)
  /\ (sec \in TrailerSections /\ spc = "enclosed") =>
       /\ swhole.st = "Ok"
       /\ swhole.val = << [t |-> "Sections", list |-> <<sec, sec>>] >>

\* C13: builder equivalence. For every state of the builder (without
\* additional content), generate returns text that parse accepts, and the
\* tree parsed from it is the builder's root-item list: Memory, Sections,
\* the commands, the statements.
C13_BuilderEquivalence ==
  /\ bpc # "aborted"
  /\ (bpc = "parsed" /\ additional_content = <<>>) =>
       /\ bparsed.st = "Ok"
       /\ bparsed.val = root_items(memory_builder, section_builder, commands, statements)

\* C16: input-section round trip. The text generated for a parsed
\* InputSection or KeepInputSection is accepted by output_section_command
\* and parses back to the same file pattern and the same section list.
C16_InputSectionRoundTrip ==
  opc = "reparsed" =>
    /\ oback.st = "Ok"
    /\ oback.val = ores.val

\* C17: incomplete EXCLUDE_FILE is rejected. section_pattern and input_osc
\* fail on EXCLUDE_FILE(files) with no pattern after it and on an
\* EXCLUDE_FILE inside the file list; they succeed, with an ExcludeFile
\* pattern, when a plain, sorted or exclude-file pattern follows the list.
C17_IncompleteExcludeRejected ==
  /\ (ptext \in IncompleteTexts \cup NestedTexts /\ ppc \in {"pattern", "input"}) =>
       psp.st \in {"Error", "Failure"}
  /\ (ptext \in IncompleteTexts \cup NestedTexts /\ ppc = "input") =>
       pin.st \in {"Error", "Failure"}
  /\ (ptext \in CompleteTexts /\ ppc \in {"pattern", "input"}) =>
       /\ psp.st = "Ok"
       /\ psp.pos = Len(ptext) + 1
       /\ psp.val.t = "ExcludeFile"
  /\ (ptext \in CompleteTexts /\ ppc = "input") =>
       /\ pin.st = "Ok"
       /\ pin.val.file = psp.val

\* The source's test text of an unfinished EXCLUDE_FILE went through both
\* parsers.
C17_BareExcludeFailed ==
  /\ ptext = "EXCLUDE_FILE (*a)"
  /\ ppc = "input"
  /\ psp.st = "Failure"
  /\ pin.st = "Failure"

\* C18: adjacent region origin. with_adjacent_region never aborts, also on
\* an empty list; the region it appends has the origin of the region before
\* it plus that region's length, without wrap-around; a call appends exactly
\* one region and leaves the earlier ones unchanged.
C18_AdjacentOrigin ==
  /\ [](/\ mpc # "panicked"
        /\ \A k \in 2..Len(mregions) :
             madj[k] =>
               LET s == add_u64(mregions[k - 1].origin, mregions[k - 1].length) IN
               ~s.overflow /\ mregions[k].origin = s.sum)
  /\ [][mregions' # mregions =>
          /\ Len(mregions') = Len(mregions) + 1
          /\ SubSeq(mregions', 1, Len(mregions)) = mregions]_vars

\* The fields a call may change.
OwnField(name) ==
  CASE name = "with_memory" -> 1
    [] name = "with_sections" -> 2
    [] name \in {"with_commands", "with_command"} -> 3
    [] name \in {"with_statements", "with_statement"} -> 4
    [] name = "with_additional_content" -> 5

\* C19: builder accumulation. The command list is the items of the most
\* recent with_commands call followed by those of every later with_command
\* call, and likewise the statements; each call changes only its own field;
\* the generated script is Memory, Sections, the commands, the statements
\* and the additional content, whatever the order of the calls.
C19_BuilderAccumulation ==
  /\ [](/\ commands = cmdBase \o cmdAdded
        /\ statements = stmtBase \o stmtAdded
        /\ bpc \in {"generated", "parsed"} =>
             script = push_contents(
                        generate(root_items(memory_builder, section_builder,
                                            cmdBase \o cmdAdded,
                                            stmtBase \o stmtAdded)).text,
                        additional_content))
  /\ [][calls' # calls =>
          \A k \in 1..5 : k # OwnField(last_call') => builderFields'[k] = builderFields[k]]_vars

\* After three calls, a with_commands call with items was followed by one
\* with_command call, and the script was generated.
C19_ReplacedThenPushed ==
  /\ calls = 3
  /\ last_call = "with_command"
  /\ cmdBase # <<>>
  /\ Len(cmdAdded) = 1
  /\ Len(commands) = Len(cmdBase) + 1
  /\ bpc = "generated"

=============================================================================
